---- MODULE Spec2Model ----
(***************************************************************************)
(* A model of the url-fetcher service: the SSRF URL validator              *)
(* (SecurityService), the per-URL fetch client (HttpService), the          *)
(* fetch-and-persist pipeline (UrlFetcherService.fetchUrls), the upsert    *)
(* store (PostgresService.saveFetchResults over the url_fetches table),    *)
(* the reads (GET /v1/url-fetches and GET /v1/url-fetches/:id, from the    *)
(* controller to the store) and the schema bootstrap                       *)
(* (PostgresService.initializeDatabase).                                   *)
(*                                                                         *)
(* URLs, host names and error messages are TLA+ strings; a character of s  *)
(* is SubSeq(s,i,i). A value that is not there yet, or an optional field   *)
(* of the validator's result, is the empty tuple None, a present value v   *)
(* the one-element tuple Some(v). Response data keeps its JavaScript type  *)
(* (see "JavaScript values" below): a body is the sequence of its code     *)
(* units, so that control characters can be written.                       *)
(***************************************************************************)
EXTENDS Integers, Sequences, FiniteSets, TLC

VARIABLES
    call,       \* a call of a pure function of the validator: [op, args, ret]
    createUrlFetchDto, \* the body of the request fetchUrls serves: [urls]
    pc,         \* where fetchUrls is: "start", "fetching", "saving", "done"
    validation, \* the result of validateUrls(urls), once computed
    promises,   \* fetchPromises: one promise per validated URL
    axios,      \* per validated URL, what its fetch met, once settled
    invoked,    \* the URLs HttpService.fetchUrl was invoked with, in order
    requested,  \* per validated URL, the URLs its GET was sent to, hop by hop
    handed,     \* the lists saveFetchResults was called with, in order
    reply,      \* what fetchUrls returned or threw, once it has
    table,      \* the rows of url_fetches
    seq,        \* the last value of the id sequence of url_fetches
    clock,      \* the database clock
    save,       \* per database session, its call of saveFetchResults
    log,        \* the upserts completed so far, in completion order
    read,       \* the call of GET /v1/url-fetches or GET /v1/url-fetches/:id
    answers,    \* the pages the paginated query has returned so far
    schema,     \* what of url_fetches exists: the table, its indexes, pg_trgm
    boot        \* where initializeDatabase is, and in which process start

pipelineVars ==
    <<createUrlFetchDto, pc, validation, promises, axios, invoked, requested, handed, reply>>
storeVars == <<table, seq, clock, save, log>>
readVars == <<read, answers>>
schemaVars == <<schema, boot>>
vars == <<call, pipelineVars, storeVars, readVars, schemaVars>>

None == <<>>
Some(v) == <<v>>
The(o) == o[1]

(***************************************************************************)
(* Eval(v, F) is F(v) with v computed once: a bound variable holds a       *)
(* value, where a LET definition or an operator argument is an expression  *)
(* that is computed again at every use.                                    *)
(***************************************************************************)
Eval(v, F(_)) == CHOOSE r \in {F(x) : x \in {v}} : TRUE

Min(S0) == Eval(S0, LAMBDA S : CHOOSE i \in S : \A j \in S : i <= j)
Max(S0) == Eval(S0, LAMBDA S : CHOOSE i \in S : \A j \in S : i >= j)

(***************************************************************************)
(* Strings                                                                 *)
(***************************************************************************)
Ch(s, i) == SubSeq(s, i, i)

Chars(s0) == Eval(s0, LAMBDA s : {Ch(s, i) : i \in 1..Len(s)})

StartsWith(s0, p) == Eval(s0, LAMBDA s : Len(s) >= Len(p) /\ SubSeq(s, 1, Len(p)) = p)

EndsWith(s0, p) ==
    Eval(s0, LAMBDA s : Len(s) >= Len(p) /\ SubSeq(s, Len(s) - Len(p) + 1, Len(s)) = p)

\* The first position of s holding a character of set cs, or Len(s)+1.
IndexOfAny(s0, cs) ==
    Eval(s0, LAMBDA s : Min({i \in 1..Len(s) : Ch(s, i) \in cs} \cup {Len(s) + 1}))

\* The last position of character c in s, or 0.
LastIndexOf(s0, c) ==
    Eval(s0, LAMBDA s : Max({i \in 1..Len(s) : Ch(s, i) = c} \cup {0}))

UpperAlpha == "ABCDEFGHIJKLMNOPQRSTUVWXYZ"
LowerAlpha == "abcdefghijklmnopqrstuvwxyz"
Digits == "0123456789"
OctalDigits == "01234567"
HexDigits == "0123456789abcdef"

PosIn(alphabet, c) == CHOOSE i \in 1..Len(alphabet) : Ch(alphabet, i) = c

IsDigit(c) == c \in Chars(Digits)
IsAlpha(c) == c \in Chars(UpperAlpha) \cup Chars(LowerAlpha)

LowerCh(c) == IF c \in Chars(UpperAlpha) THEN Ch(LowerAlpha, PosIn(UpperAlpha, c)) ELSE c

\* String.prototype.toLowerCase on ASCII.
RECURSIVE toLowerCase(_)
toLowerCase(s0) ==
    Eval(s0, LAMBDA s :
        IF s = "" THEN "" ELSE LowerCh(Ch(s, 1)) \o toLowerCase(SubSeq(s, 2, Len(s))))

\* The parts of s between the occurrences of the separator character.
RECURSIVE Split(_, _)
Split(s0, sep) ==
    Eval(s0, LAMBDA s :
    Eval(IndexOfAny(s, {sep}), LAMBDA i :
        IF i > Len(s) THEN <<s>>
        ELSE <<SubSeq(s, 1, i - 1)>> \o Split(SubSeq(s, i + 1, Len(s)), sep)))

\* The value of a numeral in the given radix (its characters are digits of it).
RECURSIVE NumVal(_, _)
NumVal(s0, radix) ==
    Eval(s0, LAMBDA s :
        IF s = "" THEN 0
        ELSE NumVal(SubSeq(s, 1, Len(s) - 1), radix) * radix
                + (PosIn(HexDigits, Ch(s, Len(s))) - 1))

\* Number.prototype.toString for a natural number.
RECURSIVE FormatDec(_)
FormatDec(n0) ==
    Eval(n0, LAMBDA n :
        IF n < 10 THEN Ch(Digits, n + 1)
        ELSE FormatDec(n \div 10) \o Ch(Digits, (n % 10) + 1))

\* s without its leading characters of cs, and without its trailing ones.
RECURSIVE SkipChars(_, _)
SkipChars(s0, cs) ==
    Eval(s0, LAMBDA s :
        IF s # "" /\ Ch(s, 1) \in cs THEN SkipChars(SubSeq(s, 2, Len(s)), cs) ELSE s)

RECURSIVE DropTrailing(_, _)
DropTrailing(s0, cs) ==
    Eval(s0, LAMBDA s :
        IF s # "" /\ Ch(s, Len(s)) \in cs THEN DropTrailing(SubSeq(s, 1, Len(s) - 1), cs) ELSE s)

(***************************************************************************)
(* new URL(s): the WHATWG URL parser of the runtime, for absolute URLs     *)
(* written in printable ASCII.  Modelled: the scheme, the authority of the *)
(* special schemes (credentials, host, port), the host parser (lower-      *)
(* casing, forbidden code points, IPv4 numbers in decimal, octal and hex,  *)
(* bracketed IPv6 literals), path, query and fragment with their          *)
(* percent-encode sets, and the serializer.                                *)
(* Not modelled: percent-decoding and IDNA in hosts, dot-segment           *)
(* normalisation of paths, zero-compression of IPv6 literals, the hosts of *)
(* file: and of non-special schemes (validateUrl never reads them).        *)
(***************************************************************************)
SpecialSchemes == {"http", "https", "ftp", "ws", "wss", "file"}

DefaultPort(scheme) ==
    CASE scheme \in {"http", "ws"} -> "80"
      [] scheme \in {"https", "wss"} -> "443"
      [] scheme = "ftp" -> "21"
      [] OTHER -> ""

SchemeChars == Chars(UpperAlpha) \cup Chars(LowerAlpha) \cup Chars(Digits) \cup {"+", "-", "."}

ForbiddenHostChars ==
    {" ", "#", "/", ":", "<", ">", "?", "@", "[", "\\", "]", "^", "|", "%"}

ParseFailure == [ok |-> FALSE]

\* The IPv4 number parser: the value of one part, or -1 on failure.
Ipv4Number(p0) ==
    Eval(p0, LAMBDA p :
        IF p = "" THEN -1
        ELSE IF StartsWith(p, "0x")
        THEN Eval(SubSeq(p, 3, Len(p)), LAMBDA d :
                IF Chars(d) \subseteq Chars(HexDigits) THEN NumVal(d, 16) ELSE -1)
        ELSE IF Len(p) >= 2 /\ Ch(p, 1) = "0"
        THEN Eval(SubSeq(p, 2, Len(p)), LAMBDA d :
                IF Chars(d) \subseteq Chars(OctalDigits) THEN NumVal(d, 8) ELSE -1)
        ELSE IF Chars(p) \subseteq Chars(Digits) THEN NumVal(p, 10) ELSE -1)

\* The parts of a host for the IPv4 tests: one trailing empty part is dropped.
HostParts(h) ==
    Eval(Split(h, "."), LAMBDA parts :
        IF Len(parts) > 1 /\ parts[Len(parts)] = ""
        THEN SubSeq(parts, 1, Len(parts) - 1)
        ELSE parts)

\* The "ends in a number" checker.
EndsInNumber(h) ==
    Eval(HostParts(h), LAMBDA parts :
    Eval(parts[Len(parts)], LAMBDA last :
        \/ last # "" /\ Chars(last) \subseteq Chars(Digits)
        \/ Ipv4Number(last) >= 0))

RECURSIVE Pow256(_)
Pow256(n) == IF n = 0 THEN 1 ELSE 256 * Pow256(n - 1)

\* The IPv4 parser on a host that ends in a number, and the IPv4 serializer:
\* the last number fills the low bytes, the others are one octet each.
\* (Numbers are 32-bit here: a single-part host is below 2^31.)
ParseIpv4(h) ==
    Eval(HostParts(h), LAMBDA parts :
    Eval([i \in 1..Len(parts) |-> Ipv4Number(parts[i])], LAMBDA nums :
        LET n == Len(parts)
            octet(j) == IF j < n THEN nums[j] ELSE (nums[n] \div Pow256(4 - j)) % 256
        IN  IF n > 4 THEN ParseFailure
            ELSE IF \E i \in 1..n : nums[i] < 0 THEN ParseFailure
            ELSE IF \E i \in 1..(n - 1) : nums[i] > 255 THEN ParseFailure
            ELSE IF n > 1 /\ nums[n] >= Pow256(5 - n) THEN ParseFailure
            ELSE [ok |-> TRUE,
                  host |-> FormatDec(octet(1)) \o "." \o FormatDec(octet(2)) \o "."
                            \o FormatDec(octet(3)) \o "." \o FormatDec(octet(4))]))

\* The host parser for a special scheme.
ParseHost(input0) ==
    Eval(input0, LAMBDA input :
        IF input = "" THEN ParseFailure
        ELSE IF Ch(input, 1) = "["
        THEN Eval(toLowerCase(SubSeq(input, 2, Len(input) - 1)), LAMBDA inner :
                IF /\ Ch(input, Len(input)) = "]"
                   /\ ":" \in Chars(inner)
                   /\ Chars(inner) \subseteq Chars(HexDigits) \cup {":"}
                THEN [ok |-> TRUE, host |-> "[" \o inner \o "]"]
                ELSE ParseFailure)
        ELSE Eval(toLowerCase(input), LAMBDA domain :
                IF Chars(domain) \cap ForbiddenHostChars # {} THEN ParseFailure
                ELSE IF EndsInNumber(domain) THEN ParseIpv4(domain)
                ELSE [ok |-> TRUE, host |-> domain]))

\* The percent-encode sets of the printable ASCII characters: fragment,
\* query of a special scheme, and path (without the double quote and
\* the grave accent, which no URL here is written with).
FragmentPercentEncodeSet == {" ", "<", ">"}
SpecialQueryPercentEncodeSet == {" ", "#", "<", ">", "'"}
PathPercentEncodeSet == {" ", "#", "<", ">", "?", "{", "}"}

\* The percent-encoded byte of a character of those sets.
PercentEncodedByte(c) ==
    CASE c = " " -> "%20"
      [] c = "#" -> "%23"
      [] c = "'" -> "%27"
      [] c = "<" -> "%3C"
      [] c = ">" -> "%3E"
      [] c = "?" -> "%3F"
      [] c = "{" -> "%7B"
      [] c = "}" -> "%7D"

\* s with its characters of the percent-encode set cs percent-encoded.
RECURSIVE PercentEncode(_, _)
PercentEncode(s0, cs) ==
    Eval(s0, LAMBDA s :
        IF s = "" THEN ""
        ELSE (IF Ch(s, 1) \in cs THEN PercentEncodedByte(Ch(s, 1)) ELSE Ch(s, 1))
                \o PercentEncode(SubSeq(s, 2, Len(s)), cs))

\* Path, query and fragment of what follows the authority.
ParseTail(rest0) ==
    Eval(rest0, LAMBDA rest :
    Eval(IndexOfAny(rest, {"#"}), LAMBDA f :
    Eval(SubSeq(rest, 1, f - 1), LAMBDA beforeF :
    Eval(IndexOfAny(beforeF, {"?"}), LAMBDA q :
    Eval(SubSeq(beforeF, 1, q - 1), LAMBDA path :
        [pathname |-> IF path = "" THEN "/" ELSE PercentEncode(path, PathPercentEncodeSet),
         search   |-> IF q <= Len(beforeF)
                      THEN Some(PercentEncode(SubSeq(beforeF, q + 1, Len(beforeF)),
                                              SpecialQueryPercentEncodeSet))
                      ELSE None,
         hash     |-> IF f <= Len(rest)
                      THEN Some(PercentEncode(SubSeq(rest, f + 1, Len(rest)),
                                              FragmentPercentEncodeSet))
                      ELSE None])))))

\* In a special URL a backslash is read as a slash.
RECURSIVE Slashes(_)
Slashes(s0) ==
    Eval(s0, LAMBDA s :
        IF s = "" THEN ""
        ELSE (IF Ch(s, 1) = "\\" THEN "/" ELSE Ch(s, 1)) \o Slashes(SubSeq(s, 2, Len(s))))

\* Host and port of an authority without its credentials.
ParseHostPort(scheme, hostport0) ==
    Eval(hostport0, LAMBDA hostport :
    Eval(LastIndexOf(hostport, "]"), LAMBDA close :
    Eval(IF close > 0
         THEN (IF close < Len(hostport) /\ Ch(hostport, close + 1) = ":" THEN close + 1 ELSE 0)
         ELSE (IF ":" \in Chars(hostport) THEN IndexOfAny(hostport, {":"}) ELSE 0), LAMBDA colon :
    Eval(IF colon > 0 THEN SubSeq(hostport, colon + 1, Len(hostport)) ELSE "", LAMBDA portIn :
    Eval(ParseHost(IF colon > 0 THEN SubSeq(hostport, 1, colon - 1) ELSE hostport), LAMBDA host :
        IF ~host.ok THEN ParseFailure
        ELSE IF close > 0 /\ close < Len(hostport) /\ colon = 0 THEN ParseFailure
        ELSE IF ~(Chars(portIn) \subseteq Chars(Digits)) THEN ParseFailure
        ELSE IF portIn # "" /\ (Len(portIn) > 5 \/ NumVal(portIn, 10) > 65535) THEN ParseFailure
        ELSE [ok |-> TRUE, host |-> host.host,
              port |-> IF portIn = "" \/ FormatDec(NumVal(portIn, 10)) = DefaultPort(scheme)
                       THEN None ELSE Some(FormatDec(NumVal(portIn, 10)))])))))

\* Authority, path, query and fragment of a special scheme other than file.
ParseSpecial(scheme, afterColon) ==
    Eval(SkipChars(afterColon, {"/", "\\"}), LAMBDA body :
    Eval(IndexOfAny(body, {"/", "\\", "?", "#"}), LAMBDA e :
    Eval(SubSeq(body, 1, e - 1), LAMBDA authority :
    Eval(ParseHostPort(scheme, SubSeq(authority, LastIndexOf(authority, "@") + 1, Len(authority))),
         LAMBDA hp :
    Eval(ParseTail(SubSeq(body, e, Len(body))), LAMBDA tail :
        IF ~hp.ok THEN ParseFailure
        ELSE [ok |-> TRUE, protocol |-> scheme \o ":", hostname |-> hp.host, port |-> hp.port,
              pathname |-> Slashes(tail.pathname),
              search |-> tail.search, hash |-> tail.hash])))))

\* new URL(s) without a base: [ok |-> FALSE] stands for the TypeError
\* "Invalid URL" the constructor throws.
ParseUrl(s) ==
    Eval(DropTrailing(SkipChars(s, {" "}), {" "}), LAMBDA input :
    Eval(IndexOfAny(input, {":"}), LAMBDA c :
    Eval(toLowerCase(SubSeq(input, 1, c - 1)), LAMBDA scheme :
    Eval(SubSeq(input, c + 1, Len(input)), LAMBDA after :
        IF c > Len(input) \/ c = 1 THEN ParseFailure
        ELSE IF ~IsAlpha(Ch(input, 1)) \/ ~(Chars(scheme) \subseteq SchemeChars) THEN ParseFailure
        ELSE IF scheme \in SpecialSchemes \ {"file"} THEN ParseSpecial(scheme, after)
        ELSE Eval(ParseTail(after), LAMBDA tail :
                [ok |-> TRUE, protocol |-> scheme \o ":", hostname |-> "", port |-> None,
                 pathname |-> IF scheme = "file" THEN tail.pathname
                              ELSE SubSeq(after, 1, IndexOfAny(after, {"?", "#"}) - 1),
                 search |-> tail.search, hash |-> tail.hash])))))

\* URL.prototype.toString (the href) of a parsed http(s) URL.
Href(u0) ==
    Eval(u0, LAMBDA u :
        u.protocol \o "//" \o u.hostname
            \o (IF u.port = None THEN "" ELSE ":" \o The(u.port))
            \o u.pathname
            \o (IF u.search = None THEN "" ELSE "?" \o The(u.search))
            \o (IF u.hash = None THEN "" ELSE "#" \o The(u.hash)))

(***************************************************************************)
(* SecurityService: the URL validator                                      *)
(***************************************************************************)
BLOCKED_HOSTNAMES ==
    {"localhost", "127.0.0.1", "::1", "0.0.0.0", "metadata.google.internal",
     "169.254.169.254", "169.254.170.2"}

SUSPICIOUS_CHARS == {"%", "@", "\\"}

ALLOWED_PROTOCOLS == {"http:", "https:"}

\* The 172.16.0.0/12 pattern with its upper edge one too high: 3[0-2].
Matches172TooWide(h) ==
    /\ StartsWith(h, "172.")
    /\ Len(h) >= 7
    /\ \/ Ch(h, 5) = "1" /\ Ch(h, 6) \in {"6", "7", "8", "9"}
       \/ Ch(h, 5) = "2" /\ IsDigit(Ch(h, 6))
       \/ Ch(h, 5) = "3" /\ Ch(h, 6) \in {"0", "1", "2"}
    /\ Ch(h, 7) = "."

\* /^172\.(1[6-9]|2[0-9]|3[0-1])\./
Matches172(h) ==
    /\ StartsWith(h, "172.")
    /\ Len(h) >= 7
    /\ \/ Ch(h, 5) = "1" /\ Ch(h, 6) \in {"6", "7", "8", "9"}
       \/ Ch(h, 5) = "2" /\ IsDigit(Ch(h, 6))
       \/ Ch(h, 5) = "3" /\ Ch(h, 6) \in {"0", "1"}
    /\ Ch(h, 7) = "."

\* BLOCKED_IP_RANGES.some(range => range.test(h))
BLOCKED_IP_RANGES(h) ==
    \/ StartsWith(h, "10.")
    \/ Matches172(h)
    \/ StartsWith(h, "192.168.")
    \/ StartsWith(h, "169.254.")
    \/ StartsWith(h, "127.")
    \/ h = "169.254.169.254"
    \/ h = "169.254.170.2"

\* /^(\d{1,3}\.){3}\d{1,3}$/
ipRegex(h) ==
    Eval(Split(h, "."), LAMBDA parts :
        /\ Len(parts) = 4
        /\ \A i \in 1..4 :
              /\ Len(parts[i]) \in 1..3
              /\ Chars(parts[i]) \subseteq Chars(Digits))

isPrivateIp(hostname) ==
    IF ~ipRegex(hostname) THEN FALSE
    ELSE BLOCKED_IP_RANGES(hostname)

\* /^metadata\./, /^169\.254\.169\.254$/, /^169\.254\.170\.2$/, /\.internal$/, /\.local$/
isCloudMetadataServer(hostname) ==
    \/ StartsWith(hostname, "metadata.")
    \/ hostname = "169.254.169.254"
    \/ hostname = "169.254.170.2"
    \/ EndsWith(hostname, ".internal")
    \/ EndsWith(hostname, ".local")

\* sanitizeUrl: re-parse, drop the fragment, serialize; the input on a throw.
\* sanitizeUrl without the assignment to parsed.hash.
sanitizeUrlKeepingHash(url) ==
    Eval(ParseUrl(url), LAMBDA parsed :
        IF ~parsed.ok THEN url
        ELSE Href(parsed))

sanitizeUrl(url) ==
    Eval(ParseUrl(url), LAMBDA parsed :
        IF ~parsed.ok THEN url
        ELSE Href([parsed EXCEPT !.hash = None]))

Invalid(error) == [isValid |-> FALSE, error |-> Some(error), sanitizedUrl |-> None]

ErrSuspicious == "URL contains suspicious characters. Characters %, @, \\ are not allowed."
ErrFormat == "Invalid URL format: Invalid URL"
ErrProtocol(protocol) ==
    "Protocol '" \o protocol \o "' is not allowed. Only http:// and https:// are permitted."
ErrHostname(hostname) == "Hostname '" \o hostname \o "' is not allowed."
ErrPrivate == "Private/internal IP addresses are not allowed."
ErrMetadata == "Cloud metadata servers are not allowed."

\* validateUrl with the private-IP test ahead of the hostname blocklist.
validateUrlPrivateFirst(url) ==
    IF Chars(url) \cap SUSPICIOUS_CHARS # {} THEN Invalid(ErrSuspicious)
    ELSE Eval(ParseUrl(url), LAMBDA parsedUrl :
            IF ~parsedUrl.ok THEN Invalid(ErrFormat)
            ELSE IF parsedUrl.protocol \notin ALLOWED_PROTOCOLS
            THEN Invalid(ErrProtocol(parsedUrl.protocol))
            ELSE Eval(toLowerCase(parsedUrl.hostname), LAMBDA hostname :
                    IF isPrivateIp(hostname) THEN Invalid(ErrPrivate)
                    ELSE IF hostname \in BLOCKED_HOSTNAMES THEN Invalid(ErrHostname(hostname))
                    ELSE IF isCloudMetadataServer(hostname) THEN Invalid(ErrMetadata)
                    ELSE [isValid |-> TRUE, error |-> None,
                          sanitizedUrl |-> Some(sanitizeUrl(Href(parsedUrl)))]))

validateUrl(url) ==
    IF Chars(url) \cap SUSPICIOUS_CHARS # {} THEN Invalid(ErrSuspicious)
    ELSE Eval(ParseUrl(url), LAMBDA parsedUrl :
            IF ~parsedUrl.ok THEN Invalid(ErrFormat)
            ELSE IF parsedUrl.protocol \notin ALLOWED_PROTOCOLS
            THEN Invalid(ErrProtocol(parsedUrl.protocol))
            ELSE Eval(toLowerCase(parsedUrl.hostname), LAMBDA hostname :
                    IF hostname \in BLOCKED_HOSTNAMES THEN Invalid(ErrHostname(hostname))
                    ELSE IF isPrivateIp(hostname) THEN Invalid(ErrPrivate)
                    ELSE IF isCloudMetadataServer(hostname) THEN Invalid(ErrMetadata)
                    ELSE [isValid |-> TRUE, error |-> None,
                          sanitizedUrl |-> Some(sanitizeUrl(Href(parsedUrl)))]))

\* A JS string used as a condition: present and not empty.
Truthy(o) == o # None /\ The(o) # ""

\* The loop of validateUrls over the rest of the input.
RECURSIVE validateUrlsFrom(_, _, _)
validateUrlsFrom(urls0, validUrls0, invalidUrls0) ==
    Eval(urls0, LAMBDA urls :
    Eval(validUrls0, LAMBDA validUrls :
    Eval(invalidUrls0, LAMBDA invalidUrls :
        IF urls = <<>> THEN [validUrls |-> validUrls, invalidUrls |-> invalidUrls]
        ELSE Eval(validateUrl(Head(urls)), LAMBDA result :
                IF result.isValid /\ Truthy(result.sanitizedUrl)
                THEN validateUrlsFrom(Tail(urls),
                                      Append(validUrls, The(result.sanitizedUrl)), invalidUrls)
                ELSE IF Truthy(result.error)
                THEN validateUrlsFrom(Tail(urls), validUrls,
                                      Append(invalidUrls,
                                             [url |-> Head(urls), error |-> The(result.error)]))
                ELSE validateUrlsFrom(Tail(urls), validUrls, invalidUrls)))))

\* validateUrls that stops at the first URL it rejects.
RECURSIVE validateUrlsFailFastFrom(_, _)
validateUrlsFailFastFrom(urls0, validUrls0) ==
    Eval(urls0, LAMBDA urls :
    Eval(validUrls0, LAMBDA validUrls :
        IF urls = <<>> THEN [validUrls |-> validUrls, invalidUrls |-> <<>>]
        ELSE Eval(validateUrl(Head(urls)), LAMBDA result :
                IF result.isValid
                THEN validateUrlsFailFastFrom(Tail(urls),
                                              Append(validUrls, The(result.sanitizedUrl)))
                ELSE [validUrls |-> validUrls,
                      invalidUrls |-> <<[url |-> Head(urls), error |-> The(result.error)]>>])))

validateUrlsFailFast(urls) == validateUrlsFailFastFrom(urls, <<>>)

validateUrls(urls) == validateUrlsFrom(urls, <<>>, <<>>)

(***************************************************************************)
(* JavaScript values that travel through the pipeline untyped (unknown):   *)
(* each carries its typeof. A string is the sequence of its UTF-16 code    *)
(* units, an object the function from its own keys to their values.        *)
(***************************************************************************)
Undefined == [type |-> "undefined"]
Null == [type |-> "null"]
Num(n) == [type |-> "number", num |-> n]
Str(codes) == [type |-> "string", codes |-> codes]
Arr(items) == [type |-> "array", items |-> items]
Obj(props) == [type |-> "object", props |-> props]

\* obj[key] of JavaScript: undefined for a key the object does not have.
Get(obj, key) == IF key \in DOMAIN obj THEN obj[key] ELSE Undefined

\* error.message.includes(part)
Includes(s0, part) ==
    Eval(s0, LAMBDA s : \E i \in 1..(Len(s) - Len(part) + 1) : SubSeq(s, i, i + Len(part) - 1) = part)

(***************************************************************************)
(* SecurityService.sanitizeData and sanitizeString                         *)
(***************************************************************************)
\* /\0/g
NullBytes == {0}

\* /[\x00-\x08\x0B\x0C\x0E-\x1F\x7F]/g
ControlChars == (0..8) \cup {11, 12} \cup (14..31) \cup {127}

\* \s of a JavaScript regular expression, which is also what trim() strips
WhiteSpace ==
    {9, 10, 11, 12, 13, 32, 160, 5760} \cup (8192..8202)
        \cup {8232, 8233, 8239, 8287, 12288, 65279}

\* str.replace(/[set]/g, '')
RemoveAll(codes, set) == SelectSeq(codes, LAMBDA c : c \notin set)

\* str.replace(/\s+/g, ' '): every maximal run of white space becomes one space
CollapseWhiteSpace(codes0) ==
    Eval(codes0, LAMBDA codes :
    Eval(SelectSeq([i \in 1..Len(codes) |-> i],
                   LAMBDA i : \/ codes[i] \notin WhiteSpace
                              \/ i = 1
                              \/ codes[i - 1] \notin WhiteSpace), LAMBDA kept :
        [k \in 1..Len(kept) |-> IF codes[kept[k]] \in WhiteSpace THEN 32 ELSE codes[kept[k]]]))

\* str.trim()
trim(codes0) ==
    Eval(codes0, LAMBDA codes :
    Eval({i \in 1..Len(codes) : codes[i] \notin WhiteSpace}, LAMBDA solid :
        IF solid = {} THEN <<>> ELSE SubSeq(codes, Min(solid), Max(solid))))

\* White space is normalised before the control characters are removed,
\* as a mutant has it.
sanitizeStringWhiteSpaceFirst(str) ==
    IF str.type # "string" THEN str
    ELSE Str(RemoveAll(RemoveAll(trim(CollapseWhiteSpace(str.codes)), NullBytes), ControlChars))

sanitizeString(str) ==
    IF str.type # "string" THEN str
    ELSE Str(trim(CollapseWhiteSpace(RemoveAll(RemoveAll(str.codes, NullBytes), ControlChars))))

RECURSIVE sanitizeData(_)
sanitizeData(data0) ==
    Eval(data0, LAMBDA data :
        IF data.type = "string" THEN sanitizeString(data)
        ELSE IF data.type = "array"
        THEN Arr([i \in 1..Len(data.items) |-> sanitizeData(data.items[i])])
        ELSE IF data.type = "object"
        THEN Obj([key \in DOMAIN data.props |-> sanitizeData(data.props[key])])
        ELSE data)

(***************************************************************************)
(* HttpService.fetchUrl. What a fetch meets is an outcome: axios.get       *)
(* returns a response (kind "response") or throws an error that may carry  *)
(* a response (kind "error"); metrics, when present, is the error          *)
(* recordHttpRequest throws, and logger the error the logger throws.       *)
(***************************************************************************)
Fulfilled(value) == [status |-> "fulfilled", value |-> value]
Rejected(reason) == [status |-> "rejected", reason |-> reason]
PendingPromise == [status |-> "pending"]

\* fetchUrl with the status of a failed response left out of its result.
fetchUrlDroppingStatus(url, outcome) ==
    IF outcome.metrics # None THEN Rejected(The(outcome.metrics))
    ELSE IF outcome.kind = "response"
    THEN Fulfilled([url |-> url,
                    responseStatus |-> Num(outcome.response.status),
                    responseHeaders |-> Obj(outcome.response.headers),
                    responseBody |-> outcome.response.data,
                    contentType |-> Get(outcome.response.headers, "content-type")])
    ELSE Fulfilled([url |-> url, responseStatus |-> Undefined,
                    error |-> outcome.error.message])

fetchUrl(url, outcome) ==
    IF outcome.metrics # None THEN Rejected(The(outcome.metrics))
    ELSE IF outcome.kind = "response"
    THEN Fulfilled([url |-> url,
                    responseStatus |-> Num(outcome.response.status),
                    responseHeaders |-> Obj(outcome.response.headers),
                    responseBody |-> outcome.response.data,
                    contentType |-> Get(outcome.response.headers, "content-type")])
    ELSE Eval(outcome.error, LAMBDA axiosError :
         Eval(IF "response" \in DOMAIN axiosError
              THEN "HTTP " \o FormatDec(axiosError.response.status) \o ": "
                      \o axiosError.message
              ELSE axiosError.message, LAMBDA errorMessage :
            Fulfilled([url |-> url,
                       responseStatus |-> IF "response" \in DOMAIN axiosError
                                          THEN Num(axiosError.response.status)
                                          ELSE Undefined,
                       error |-> errorMessage])))

(***************************************************************************)
(* PostgresService: the url_fetches table and saveFetchResults             *)
(***************************************************************************)
Sessions == {"s1", "s2"}

databaseErrorCodes ==
    {"08000", "08003", "08006", "08001", "08004", "08007", "40P01", "55P03",
     "57P01", "57P02", "57P03"}

connectionErrorCodesNonQuery == {"ECONNREFUSED", "ENOTFOUND", "ETIMEDOUT", "connection", "timeout"}

connectionErrorMessages == {"timeout", "connection", "deadlock", "transaction", "lock"}

ServiceUnavailableException ==
    [name |-> "ServiceUnavailableException", status |-> 503,
     response |-> [message |-> "Service temporarily unavailable"]]

\* codes.includes(error.code): false for an error that has no code
CodeIn(error, codes) == "code" \in DOMAIN error /\ error.code \in codes

\* Every error becomes a 503, as a mutant has it.
alwaysUnavailable(error) == ServiceUnavailableException

\* What handleDatabaseError throws for error, [queryFailed, message] with or
\* without a code; queryFailed is error instanceof QueryFailedError.
handleDatabaseError(error) ==
    IF error.queryFailed /\ CodeIn(error, databaseErrorCodes)
    THEN ServiceUnavailableException
    ELSE IF \/ CodeIn(error, connectionErrorCodesNonQuery)
            \/ \E message \in connectionErrorMessages : Includes(error.message, message)
    THEN ServiceUnavailableException
    ELSE error

\* The value a column takes from a property of the inserted object: an
\* undefined property is left to the column's default, which is NULL.
Column(value) == IF value = Undefined THEN Null ELSE value

\* .values({...}) of the insert
Values(result) ==
    [url |-> result.url,
     response_status |-> Column(Get(result, "responseStatus")),
     response_headers |-> Column(Get(result, "responseHeaders")),
     response_body |-> Column(Get(result, "responseBody")),
     content_type |-> Column(Get(result, "contentType"))]

NewRow(values, id, now) ==
    [id |-> id, url |-> values.url,
     response_status |-> values.response_status,
     response_headers |-> values.response_headers,
     response_body |-> values.response_body,
     content_type |-> values.content_type,
     fetched_at |-> now]

\* INSERT without the ON CONFLICT clause and without the unique constraint.
InsertOnly(rows, values, id, now) == rows \cup {NewRow(values, id, now)}

\* On a conflict the old row is deleted and the proposed one inserted.
UpsertReplacingRow(rows, values, id, now) ==
    {r \in rows : r.url # values.url} \cup {NewRow(values, id, now)}

\* ON CONFLICT DO NOTHING
UpsertKeepingFirst(rows, values, id, now) ==
    IF \E r \in rows : r.url = values.url THEN rows
    ELSE rows \cup {NewRow(values, id, now)}

\* A read of the row followed by an update of what differs from it, as two
\* steps: the status and the time are written, the payload read earlier stays.
UpsertStatusOnly(rows, values, id, now) ==
    IF \E r \in rows : r.url = values.url
    THEN {IF r.url = values.url
          THEN [r EXCEPT !.response_status = values.response_status, !.fetched_at = now]
          ELSE r : r \in rows}
    ELSE rows \cup {NewRow(values, id, now)}

\* INSERT ... ON CONFLICT ("url") DO UPDATE SET ..., "fetched_at" = now():
\* the rows after the statement; id is the sequence value drawn for the
\* proposed row, now the start time of the statement's transaction.
\* ON CONFLICT ... SET column = COALESCE(EXCLUDED.column, column): a NULL
\* of the new values keeps what the row holds.
UpsertCoalescing(rows, values, id, now) ==
    IF \E r \in rows : r.url = values.url
    THEN {IF r.url = values.url
          THEN [r EXCEPT !.response_status = IF values.response_status = Null THEN @
                                             ELSE values.response_status,
                         !.response_headers = IF values.response_headers = Null THEN @
                                              ELSE values.response_headers,
                         !.response_body = IF values.response_body = Null THEN @
                                           ELSE values.response_body,
                         !.content_type = IF values.content_type = Null THEN @
                                          ELSE values.content_type,
                         !.fetched_at = now]
          ELSE r : r \in rows}
    ELSE rows \cup {NewRow(values, id, now)}

Upsert(rows, values, id, now) ==
    IF \E r \in rows : r.url = values.url
    THEN {IF r.url = values.url
          THEN [r EXCEPT !.response_status = values.response_status,
                         !.response_headers = values.response_headers,
                         !.response_body = values.response_body,
                         !.content_type = values.content_type,
                         !.fetched_at = now]
          ELSE r : r \in rows}
    ELSE rows \cup {NewRow(values, id, now)}

\* RETURNING *: the row the statement inserted or updated
Returning(rows, url) == CHOOSE r \in rows : r.url = url

\* new UrlFetch() filled from raw[0]
UrlFetch(raw) ==
    [id |-> raw.id, url |-> raw.url,
     responseStatus |-> raw.response_status,
     responseHeaders |-> raw.response_headers,
     responseBody |-> raw.response_body,
     contentType |-> raw.content_type,
     fetchedAt |-> raw.fetched_at]

toJSON(this) ==
    [id |-> this.id, url |-> this.url,
     response_status |-> this.responseStatus,
     response_headers |-> this.responseHeaders,
     response_body |-> this.responseBody,
     content_type |-> this.contentType,
     fetched_at |-> this.fetchedAt]

\* A session that has not called saveFetchResults.
IdleSave ==
    [status |-> "idle", results |-> <<>>, savedResults |-> <<>>, now |-> None,
     after |-> 0, caught |-> None, outcome |-> None]

Return(value) == [kind |-> "return", value |-> value]
Throw(exception) == [kind |-> "throw", exception |-> exception]

\* saveFetchResults(results) up to its first await: with nothing to save it
\* returns at once.
saveFetchResults(results) ==
    IF results = <<>>
    THEN [IdleSave EXCEPT !.status = "returned", !.outcome = Some(Return(<<>>))]
    ELSE [IdleSave EXCEPT !.status = "running", !.results = results]

\* The result the loop of saveFetchResults is at.
Current(s) == save[s].results[Len(save[s].savedResults) + 1]

\* The statement of the loop reaches the database: its transaction starts
\* and now() is fixed for it, the time of the previous transaction start or a
\* later one; after is the number of statements completed before this start.
StmtBegin(s) ==
    /\ save[s].status = "running" /\ save[s].now = None
    /\ \E time \in {clock, clock + 1} :
          /\ clock' = time
          /\ save' = [save EXCEPT ![s].now = Some(time), ![s].after = Len(log)]
    /\ UNCHANGED <<call, readVars, schemaVars, pipelineVars, table, seq, log>>

\* The statement runs and commits, and the loop goes on with its row: after
\* the last result saveFetchResults returns the saved rows.
StmtExec(s) ==
    /\ save[s].status = "running" /\ save[s].now # None
    /\ \E result \in {Current(s)} :
       \E rows \in {Upsert(table, Values(result), seq + 1, The(save[s].now))} :
       \E raw \in {Returning(rows, result.url)} :
       \E savedResults \in {Append(save[s].savedResults, UrlFetch(raw))} :
          /\ table' = rows
          /\ seq' = seq + 1
          /\ log' = Append(log, [session |-> s, values |-> Values(result),
                                 now |-> The(save[s].now), after |-> save[s].after,
                                 id |-> raw.id])
          /\ save' = [save EXCEPT ![s] =
                        IF Len(savedResults) = Len(save[s].results)
                        THEN [@ EXCEPT !.status = "returned", !.now = None,
                                       !.savedResults = savedResults,
                                       !.outcome = Some(Return(
                                           [i \in 1..Len(savedResults) |->
                                               toJSON(savedResults[i])]))]
                        ELSE [@ EXCEPT !.now = None, !.savedResults = savedResults]]
    /\ UNCHANGED <<call, readVars, schemaVars, pipelineVars, clock>>

\* StmtFail in a saveFetchResults whose loop ran in one transaction: the
\* rows of its earlier statements go with the failed one.
StmtFailRollingBack(s, error) ==
    /\ save[s].status = "running" /\ save[s].now # None
    /\ save' = [save EXCEPT ![s] =
                  [@ EXCEPT !.status = "threw", !.now = None,
                            !.caught = Some(error),
                            !.outcome = Some(Throw(handleDatabaseError(error)))]]
    /\ table' = {r \in table : \A k \in 1..Len(save[s].savedResults) :
                                  r.url # save[s].savedResults[k].url}
    /\ UNCHANGED <<call, readVars, schemaVars, pipelineVars, seq, clock, log>>

\* The statement fails with error and changes nothing: saveFetchResults
\* catches it and throws what handleDatabaseError makes of it.
StmtFail(s, error) ==
    /\ save[s].status = "running" /\ save[s].now # None
    /\ save' = [save EXCEPT ![s] =
                  [@ EXCEPT !.status = "threw", !.now = None,
                            !.caught = Some(error),
                            !.outcome = Some(Throw(handleDatabaseError(error)))]]
    /\ UNCHANGED <<call, readVars, schemaVars, pipelineVars, table, seq, clock, log>>

(***************************************************************************)
(* PostgresService: the reads                                              *)
(***************************************************************************)
\* No GET has arrived.
NoRead == [op |-> "none", pc |-> "done"]

\* url ~ pattern, for a pattern of literal characters with or without a
\* leading ^.
RegexMatch(text, pattern) ==
    IF StartsWith(pattern, "^") THEN StartsWith(text, SubSeq(pattern, 2, Len(pattern)))
    ELSE Includes(text, pattern)

\* Every supplied filter holds of some row, as a mutant has it.
MatchingAny(rows, options) ==
    {r \in rows :
        \/ options.status # None /\ r.response_status = Num(The(options.status))
        \/ Truthy(options.url) /\ RegexMatch(r.url, The(options.url))
        \/ options.startDate # None /\ r.fetched_at >= The(options.startDate)
        \/ options.endDate # None /\ r.fetched_at <= The(options.endDate)}

\* The rows the WHERE clause built from options keeps: one condition for
\* each of status !== undefined, url, startDate, endDate, joined with AND.
Matching(rows, options) ==
    {r \in rows :
        /\ options.status # None => r.response_status = Num(The(options.status))
        /\ Truthy(options.url) => RegexMatch(r.url, The(options.url))
        /\ options.startDate # None => r.fetched_at >= The(options.startDate)
        /\ options.endDate # None => r.fetched_at <= The(options.endDate)}

\* The orders in which the rows can come out oldest first.
OrderedOldestFirst(rows) ==
    {order \in [1..Cardinality(rows) -> rows] :
        /\ \A i \in DOMAIN order, j \in DOMAIN order : order[i] = order[j] => i = j
        /\ \A i \in DOMAIN order, j \in DOMAIN order :
                i < j => order[i].fetched_at <= order[j].fetched_at}

\* ORDER BY fetched_at DESC: the orders in which the rows can come out; rows
\* of equal fetched_at come in an order the database chooses per query.
OrderedByFetchedAtDesc(rows) ==
    {order \in [1..Cardinality(rows) -> rows] :
        /\ \A i \in DOMAIN order, j \in DOMAIN order : order[i] = order[j] => i = j
        /\ \A i \in DOMAIN order, j \in DOMAIN order :
                i < j => order[i].fetched_at >= order[j].fetched_at}

\* LIMIT limit OFFSET offset, neither negative
LimitOffset(order, limit, offset) ==
    SubSeq(order, offset + 1, Min({Len(order), offset + limit}))

\* What the data query fails with on its own account: a negative OFFSET or
\* LIMIT is an error of the statement, the OFFSET being looked at first.
DataQueryError(limit, offset) ==
    IF offset < 0
    THEN Some([queryFailed |-> TRUE, code |-> "2201X", message |-> "OFFSET must not be negative"])
    ELSE IF limit < 0
    THEN Some([queryFailed |-> TRUE, code |-> "2201W", message |-> "LIMIT must not be negative"])
    ELSE None

\* Math.ceil(a / b) for a >= 0 and b > 0
Ceil(a, b) == (a + b - 1) \div b

(***************************************************************************)
(* PostgresService.initializeDatabase                                      *)
(***************************************************************************)
Indexes == {"idx_url", "idx_status", "idx_fetched_at", "idx_url_trgm"}

FullSchema == [table |-> TRUE, indexes |-> Indexes, extension |-> TRUE]

\* initializeDatabase has not been called: no process has started. run
\* counts the process starts, before is the schema the last start found.
IdleBoot == [pc |-> "idle", run |-> 0, before |-> None, outcome |-> None]

\* A statement that creates a relation which exists fails, and with it the
\* query it is part of.
DuplicateRelation(name) ==
    [queryFailed |-> TRUE, code |-> "42P07",
     message |-> "relation \"" \o name \o "\" already exists"]

\* The catch of initializeDatabase
BootThrew(error) ==
    [boot EXCEPT !.pc = "done", !.outcome = Some(Throw(handleDatabaseError(error)))]

\* A process starts: the constructor calls initializeDatabase, which sends
\* its SELECT EXISTS.
StartProcess ==
    /\ boot.pc \in {"idle", "done"}
    /\ boot' = [pc |-> "tableExists", run |-> boot.run + 1, before |-> Some(schema),
                outcome |-> None]
    /\ UNCHANGED <<call, pipelineVars, storeVars, readVars, schema>>

\* The answer to SELECT EXISTS: with the table there, nothing is created.
TableExists ==
    /\ boot.pc = "tableExists"
    /\ boot' = IF schema.table
               THEN [boot EXCEPT !.pc = "done", !.outcome = Some(Return(Undefined))]
               ELSE [boot EXCEPT !.pc = "createTable"]
    /\ UNCHANGED <<call, pipelineVars, storeVars, readVars, schema>>

\* CREATE TABLE url_fetches (...)
CreateTable ==
    /\ boot.pc = "createTable"
    /\ IF schema.table
       THEN boot' = BootThrew(DuplicateRelation("url_fetches")) /\ schema' = schema
       ELSE boot' = [boot EXCEPT !.pc = "createIndexes"]
                /\ schema' = [schema EXCEPT !.table = TRUE]
    /\ UNCHANGED <<call, pipelineVars, storeVars, readVars>>

\* CREATE INDEX idx_url ...; CREATE INDEX idx_status ...; CREATE INDEX
\* idx_fetched_at ...: one query, done as a whole or not at all.
CreateIndexes ==
    /\ boot.pc = "createIndexes"
    /\ \E present \in {schema.indexes \cap {"idx_url", "idx_status", "idx_fetched_at"}} :
          IF present # {}
          THEN boot' = BootThrew(DuplicateRelation(CHOOSE name \in present : TRUE))
                    /\ schema' = schema
          ELSE boot' = [boot EXCEPT !.pc = "createTrgm"]
                    /\ schema' = [schema EXCEPT
                                    !.indexes = @ \cup {"idx_url", "idx_status", "idx_fetched_at"}]
    /\ UNCHANGED <<call, pipelineVars, storeVars, readVars>>

\* CREATE EXTENSION IF NOT EXISTS pg_trgm; CREATE INDEX idx_url_trgm ...:
\* one query again, after which initializeDatabase returns.
CreateTrgm ==
    /\ boot.pc = "createTrgm"
    /\ IF "idx_url_trgm" \in schema.indexes
       THEN boot' = BootThrew(DuplicateRelation("idx_url_trgm")) /\ schema' = schema
       ELSE boot' = [boot EXCEPT !.pc = "done", !.outcome = Some(Return(Undefined))]
                /\ schema' = [schema EXCEPT !.extension = TRUE,
                                             !.indexes = @ \cup {"idx_url_trgm"}]
    /\ UNCHANGED <<call, pipelineVars, storeVars, readVars>>

\* The query initializeDatabase awaits fails with error and changes nothing.
BootFail(error) ==
    /\ boot.pc \in {"tableExists", "createTable", "createIndexes", "createTrgm"}
    /\ boot' = BootThrew(error)
    /\ UNCHANGED <<call, pipelineVars, storeVars, readVars, schema>>

(***************************************************************************)
(* UrlFetcherService.fetchUrls                                             *)
(***************************************************************************)
BadRequestException(response) ==
    [name |-> "BadRequestException", status |-> 400, response |-> response]

\* The promise of the callback mapped over validUrls, for one URL.
fetchPromise(url, outcome) ==
    IF outcome.logger # None THEN Rejected(The(outcome.logger))
    ELSE Eval(fetchUrl(url, outcome), LAMBDA result :
            IF result.status = "fulfilled" THEN result
            ELSE Fulfilled([url |-> url, error |-> result.reason.message]))

\* The fulfilled promises only: what Promise.all would keep at best.
fulfilledResults(fetchResults, validUrls) ==
    Eval(SelectSeq(fetchResults, LAMBDA result :
                     result.status = "fulfilled" /\ "error" \notin DOMAIN result.value),
         LAMBDA kept : [index \in 1..Len(kept) |-> kept[index].value])

\* fetchResults.map(...).filter(result => result !== null)
successfulResults(fetchResults, validUrls) ==
    SelectSeq([index \in 1..Len(fetchResults) |->
                  IF fetchResults[index].status = "fulfilled"
                  THEN fetchResults[index].value
                  ELSE [url |-> validUrls[index],
                        error |-> fetchResults[index].reason.message]],
              LAMBDA result : result # Null)

\* The results are handed on as they are, as a mutant has it.
unsanitizedResults(results) == results

sanitizedResults(results) ==
    [i \in 1..Len(results) |->
        IF "error" \in DOMAIN results[i] THEN results[i]
        ELSE [results[i] EXCEPT !.responseHeaders = sanitizeData(@),
                                !.responseBody = sanitizeData(@),
                                !.contentType = sanitizeData(@)]]

\* fetchUrls throws exception before anything was fetched.
Refuse(exception) ==
    /\ reply' = Some(Throw(exception))
    /\ pc' = "done"
    /\ UNCHANGED <<promises, axios, invoked, requested, handed>>

\* fetchUrls maps its callback over validUrls: every call of fetchUrl is
\* made before the first await.
Launch(validUrls) ==
    /\ promises' = [i \in 1..Len(validUrls) |-> PendingPromise]
    /\ axios' = [i \in 1..Len(validUrls) |-> None]
    /\ invoked' = invoked \o validUrls
    /\ requested' = [i \in 1..Len(validUrls) |-> <<validUrls[i]>>]
    /\ pc' = "fetching"
    /\ UNCHANGED <<handed, reply>>

\* fetchUrls without the refusal of a batch that has rejected URLs.
CallFetchUrlsPartial ==
    /\ pc = "start"
    /\ \E result \in {validateUrls(createUrlFetchDto.urls)} :
          /\ validation' = Some(result)
          /\ IF Len(result.validUrls) = 0
             THEN Refuse(BadRequestException(
                      [message |-> "No valid URLs provided after security validation"]))
             ELSE Launch(result.validUrls)
    /\ UNCHANGED <<call, readVars, schemaVars, createUrlFetchDto, storeVars>>

\* fetchUrls from its call to its first await.
CallFetchUrls ==
    /\ pc = "start"
    /\ \E result \in {validateUrls(createUrlFetchDto.urls)} :
          /\ validation' = Some(result)
          /\ IF Len(result.invalidUrls) > 0
             THEN Refuse(BadRequestException(
                      [message |-> "Some URLs failed security validation",
                       invalidUrls |-> result.invalidUrls,
                       validUrlsCount |-> Len(result.validUrls),
                       invalidUrlsCount |-> Len(result.invalidUrls)]))
             ELSE IF Len(result.validUrls) = 0
             THEN Refuse(BadRequestException(
                      [message |-> "No valid URLs provided after security validation"]))
             ELSE Launch(result.validUrls)
    /\ UNCHANGED <<call, readVars, schemaVars, createUrlFetchDto, storeVars>>

\* The fetch of the i-th validated URL meets outcome and its promise settles.
Settle(i, outcome) ==
    /\ pc = "fetching"
    /\ i \in 1..Len(promises) /\ promises[i].status = "pending"
    /\ promises' = [promises EXCEPT ![i] = fetchPromise(The(validation).validUrls[i], outcome)]
    /\ axios' = [axios EXCEPT ![i] = Some(outcome)]
    /\ UNCHANGED <<call, readVars, schemaVars, createUrlFetchDto, pc, validation, invoked, requested, handed, reply, storeVars>>

\* Join as soon as one promise has settled, as Promise.race would resume:
\* the results of the settled promises are handed on.
JoinAtFirstSettled ==
    /\ pc = "fetching"
    /\ \E i \in 1..Len(promises) : promises[i].status # "pending"
    /\ \E results \in {sanitizedResults(successfulResults(
                            SelectSeq(promises, LAMBDA promise : promise.status # "pending"),
                            The(validation).validUrls))} :
          /\ handed' = Append(handed, results)
          /\ save' = [save EXCEPT !["s1"] = saveFetchResults(results)]
    /\ pc' = "saving"
    /\ UNCHANGED <<call, readVars, schemaVars, createUrlFetchDto, validation, promises, axios, invoked, requested, reply,
                   table, seq, clock, log>>

\* axios.get(url, {maxRedirects: 3, ...})
maxRedirects == 3

\* The pending GET of the i-th validated URL is answered with a redirect to
\* location, and axios sends the request there: no more than maxRedirects
\* times for one fetch.
Redirect(i, location) ==
    /\ pc = "fetching"
    /\ i \in 1..Len(promises) /\ promises[i].status = "pending"
    /\ Len(requested[i]) <= maxRedirects
    /\ requested' = [requested EXCEPT ![i] = Append(@, location)]
    /\ UNCHANGED <<call, readVars, schemaVars, createUrlFetchDto, pc, validation, promises, axios,
                   invoked, handed, reply, storeVars>>

\* Promise.allSettled resolves: the results are collected, sanitized and
\* handed to saveFetchResults, which runs to its first await.
Join ==
    /\ pc = "fetching"
    /\ \A i \in 1..Len(promises) : promises[i].status # "pending"
    /\ \E results \in {sanitizedResults(successfulResults(promises,
                                                          The(validation).validUrls))} :
          /\ handed' = Append(handed, results)
          /\ save' = [save EXCEPT !["s1"] = saveFetchResults(results)]
    /\ pc' = "saving"
    /\ UNCHANGED <<call, readVars, schemaVars, createUrlFetchDto, validation, promises, axios, invoked, requested, reply,
                   table, seq, clock, log>>

\* saveFetchResults has settled: fetchUrls returns its rows or rethrows.
FetchUrlsReturn ==
    /\ pc = "saving"
    /\ save["s1"].status \in {"returned", "threw"}
    /\ reply' = save["s1"].outcome
    /\ pc' = "done"
    /\ UNCHANGED <<call, readVars, schemaVars, createUrlFetchDto, validation, promises, axios, invoked, requested, handed, storeVars>>

(***************************************************************************)
(* UrlFetcherController.getAllUrlFetches and getUrlFetchById, through      *)
(* UrlFetcherService (which passes options and results on and rethrows) to *)
(* PostgresService.  A query parameter is None when absent.                *)
(***************************************************************************)
\* parseInt(value): blanks skipped, a sign, then the leading decimal digits;
\* None is NaN, which is what undefined and a string without digits give.
parseInt(value) ==
    IF value = None THEN None
    ELSE \* the sign and the digits that follow it
         Eval(SkipChars(The(value), {" "}), LAMBDA s :
         Eval(IF s # "" /\ Ch(s, 1) \in {"-", "+"} THEN SubSeq(s, 2, Len(s)) ELSE s, LAMBDA rest :
         Eval(Min({i \in 1..Len(rest) : ~IsDigit(Ch(rest, i))} \cup {Len(rest) + 1}), LAMBDA stop :
            IF stop = 1 THEN None
            ELSE IF Ch(s, 1) = "-" THEN Some(0 - NumVal(SubSeq(rest, 1, stop - 1), 10))
            ELSE Some(NumVal(SubSeq(rest, 1, stop - 1), 10)))))

\* number || fallback: NaN and 0 are falsy
OrElse(number, fallback) ==
    IF number = None \/ The(number) = 0 THEN fallback ELSE The(number)

\* new Date(value) for a string that writes an instant as its tick of the
\* store's clock
Date(value) == NumVal(value, 10)

\* The options getAllUrlFetches builds from the query string; a status is
\* written as a numeral.
PaginationOptions(query) ==
    [page |-> OrElse(parseInt(query.page), 1),
     limit |-> OrElse(parseInt(query.limit), 10),
     status |-> IF Truthy(query.status) THEN parseInt(query.status) ELSE None,
     url |-> query.url,
     startDate |-> IF Truthy(query.startDate) THEN Some(Date(The(query.startDate))) ELSE None,
     endDate |-> IF Truthy(query.endDate) THEN Some(Date(The(query.endDate))) ELSE None]

\* A GET has arrived and its handler is at pc; counted and listed are the
\* tables the count query and the data query saw.
Reading(op, query, options, at) ==
    [op |-> op, query |-> query, options |-> options, pc |-> at,
     totalItems |-> None, counted |-> None, listed |-> None,
     caught |-> None, outcome |-> None]

\* GET /v1/url-fetches?...: getAllUrlFetches up to the count query
CallGetAllUrlFetches(query) ==
    /\ read.pc = "done"
    /\ read' = Reading("getAllUrlFetches", query, PaginationOptions(query), "count")
    /\ UNCHANGED <<call, pipelineVars, storeVars, answers, schemaVars>>

\* await this.dataSource.query(countQuery, queryParams)
CountQuery ==
    /\ read.op = "getAllUrlFetches" /\ read.pc = "count"
    /\ read' = [read EXCEPT !.pc = "data",
                            !.totalItems = Some(Cardinality(Matching(table, read.options))),
                            !.counted = Some(table)]
    /\ UNCHANGED <<call, pipelineVars, storeVars, answers, schemaVars>>

\* The catch of the read: what handleDatabaseError makes of error is thrown
\* through the service to the caller.
ReadThrew(error) ==
    [read EXCEPT !.pc = "done", !.caught = Some(error),
                 !.outcome = Some(Throw(handleDatabaseError(error)))]

\* What getAllUrlFetches returns for the rows of the data query.
PaginatedResponse(data, options, totalItems) ==
    [message |-> "Successfully retrieved URL fetches",
     data |-> data,
     count |-> Len(data),
     pagination |-> [page |-> options.page, limit |-> options.limit,
                     totalPages |-> Ceil(totalItems, options.limit),
                     totalItems |-> totalItems]]

\* await this.dataSource.query(dataQuery, dataParams) and the rest of the
\* handler: the statement fails on a negative LIMIT or OFFSET, else it
\* returns the page in one of the orders the database may choose.
DataQuery ==
    /\ read.op = "getAllUrlFetches" /\ read.pc = "data"
    /\ \E options \in {read.options} :
       \E offset \in {(options.page - 1) * options.limit} :
       \E error \in {DataQueryError(options.limit, offset)} :
          IF error # None
          THEN read' = ReadThrew(The(error)) /\ answers' = answers
          ELSE \E order \in OrderedByFetchedAtDesc(Matching(table, options)) :
               \E data \in {LimitOffset(order, options.limit, offset)} :
               \E answer \in {[read EXCEPT
                                  !.pc = "done", !.listed = Some(table),
                                  !.outcome = Some(Return(PaginatedResponse(
                                                  data, options, The(read.totalItems))))]} :
                  read' = answer /\ answers' = Append(answers, answer)
    /\ UNCHANGED <<call, pipelineVars, storeVars, schemaVars>>

\* GET /v1/url-fetches/:id: getUrlFetchById up to findOne, or its refusal
\* of an id that is not a number.
CallGetUrlFetchById(id) ==
    /\ read.pc = "done"
    /\ \E parsedId \in {parseInt(Some(id))} :
          read' = IF parsedId = None
                  THEN [Reading("getUrlFetchById", [id |-> id], [id |-> parsedId], "done")
                            EXCEPT !.outcome = Some(Throw(BadRequestException(
                                [message |-> "Invalid ID format. ID must be a valid integer.",
                                 error |-> "Bad Request", statusCode |-> 400])))]
                  ELSE Reading("getUrlFetchById", [id |-> id], [id |-> parsedId], "findOne")
    /\ UNCHANGED <<call, pipelineVars, storeVars, answers, schemaVars>>

\* await this.urlFetchRepository.findOne({ where: { id } }) and the rest
FindOne ==
    /\ read.op = "getUrlFetchById" /\ read.pc = "findOne"
    /\ \E found \in {{r \in table : r.id = The(read.options.id)}} :
          read' = [read EXCEPT
                     !.pc = "done", !.listed = Some(table),
                     !.outcome = Some(Return(
                         IF found = {}
                         THEN [message |-> "URL fetch not found", data |-> Null]
                         ELSE [message |-> "URL fetch found",
                               data |-> toJSON(UrlFetch(CHOOSE r \in found : TRUE))]))]
    /\ UNCHANGED <<call, pipelineVars, storeVars, answers, schemaVars>>

\* The statement the read awaits fails with error.
QueryFail(error) ==
    /\ read.pc \in {"count", "data", "findOne"}
    /\ read' = ReadThrew(error)
    /\ UNCHANGED <<call, pipelineVars, storeVars, answers, schemaVars>>

(***************************************************************************)
(* The validator's callers: validateUrl, isPrivateIp and validateUrls      *)
(* applied to inputs drawn from bounded sets.                              *)
(***************************************************************************)
MaxBatch == 2

Schemes == {"http", "https", "HTTP", "ftp", "file", "javascript"}

Hosts ==
    {"example.com", "httpbin.org", "Example.COM", "example.com.",
     "localhost", "LOCALHOST", "LocalHost",
     "127.0.0.1", "[::1]", "::1", "0.0.0.0",
     "metadata.google.internal", "Metadata.Google.Internal",
     "169.254.169.254", "169.254.170.2",
     "metadata.example.com", "svc.internal", "printer.local", "internal.example.com",
     "10.example.com", "10.0.0.1", "192.168.1.1", "172.16.0.1", "172.20.0.1",
     "172.31.0.1", "172.32.0.1", "8.8.8.8", "10.0.0.999", "127.1", "1.2.3.4.5",
     "example%0a.com", "a@b.com", "a\\b.com", "user@localhost", "127.0.0.1\\x",
     "exa mple.com"}

Tails == {"", "/a?b=1#frag", "/#", ":8080/x", "/a b"}

RawUrls ==
    {scheme \o "://" \o host \o tail : scheme \in Schemes, host \in Hosts, tail \in Tails}
        \cup {"", "not-a-url", "http://", "http:example.com", "%", "ht%tp://example.com",
              "//example.com", "1http://example.com"}

\* Octets around the edges of the private ranges.
OctetsA == {0, 1, 9, 10, 11, 100, 126, 127, 128, 168, 169, 170, 171, 172, 173, 191, 192, 193, 254, 255}
OctetsB == {0, 1, 15, 16, 17, 19, 20, 29, 30, 31, 32, 160, 167, 168, 169, 253, 254, 255}
OctetsC == {0, 169, 170}
OctetsD == {1, 2, 254}

QuadUrls ==
    {"http://" \o FormatDec(a) \o "." \o FormatDec(b) \o "." \o FormatDec(c) \o "."
        \o FormatDec(d) \o "/" : a \in OctetsA, b \in OctetsB, c \in OctetsC, d \in OctetsD}

\* The URLs the lists handed to validateUrls are made of.
BatchUrls ==
    {"https://example.com", "https://httpbin.org/get#top", "http://localhost",
     "ftp://example.com", "http://a@b.com"}

RECURSIVE SeqsUpTo(_, _)
SeqsUpTo(S, n) ==
    IF n = 0 THEN {<<>>}
    ELSE LET shorter == SeqsUpTo(S, n - 1)
         IN  shorter \cup {Append(q, x) : q \in {r \in shorter : Len(r) = n - 1}, x \in S}

\* A call that has not returned yet; args is the tuple of its string arguments
\* (for validateUrls, the list itself).
Pending(op, args) == [op |-> op, args |-> args, ret |-> None]

\* No call of the validator's functions is being followed.
NoCall == Pending("none", <<>>)

\* No request is being served.
IdlePipeline ==
    /\ createUrlFetchDto = [urls |-> <<>>]
    /\ pc = "idle"
    /\ validation = None
    /\ promises = <<>>
    /\ axios = <<>>
    /\ invoked = <<>>
    /\ requested = <<>>
    /\ handed = <<>>
    /\ reply = None

\* The table as initializeDatabase creates it, and no session at work.
EmptyStore ==
    /\ table = {}
    /\ seq = 0
    /\ clock = 0
    /\ save = [s \in Sessions |-> IdleSave]
    /\ log = <<>>

\* No read is in progress and none has been answered.
IdleRead == read = NoRead /\ answers = <<>>

\* The schema is complete and no bootstrap is running.
SchemaReady == schema = FullSchema /\ boot = IdleBoot

\* The argument of a call of validateUrl or isPrivateIp.
Arg == call.args[1]

CallValidateUrl ==
    /\ call.op = "validateUrl" /\ call.ret = None
    /\ call' = [call EXCEPT !.ret = Some(validateUrl(Arg))]
    /\ UNCHANGED <<pipelineVars, storeVars, readVars, schemaVars>>

\* isPrivateIp is private: its argument is the lower-cased hostname of a
\* parsed URL, as validateUrl computes it.
CallIsPrivateIp ==
    /\ call.op = "isPrivateIp" /\ call.ret = None
    /\ call' = [call EXCEPT !.ret = Some(isPrivateIp(Arg))]
    /\ UNCHANGED <<pipelineVars, storeVars, readVars, schemaVars>>

CallValidateUrls ==
    /\ call.op = "validateUrls" /\ call.ret = None
    /\ call' = [call EXCEPT !.ret = Some(validateUrls(call.args))]
    /\ UNCHANGED <<pipelineVars, storeVars, readVars, schemaVars>>

ParsedHostnames ==
    {toLowerCase(ParseUrl(url).hostname) : url \in {u \in RawUrls \cup QuadUrls : ParseUrl(u).ok}}

InitValidate ==
    /\ call \in {Pending("validateUrl", <<url>>) : url \in RawUrls}
        \cup {Pending("isPrivateIp", <<hostname>>) : hostname \in ParsedHostnames}
        \cup {Pending("validateUrls", list) : list \in SeqsUpTo(BatchUrls, MaxBatch)}
    /\ IdlePipeline
    /\ EmptyStore
    /\ IdleRead
    /\ SchemaReady

NextValidate ==
    \/ CallValidateUrl
    \/ CallIsPrivateIp
    \/ CallValidateUrls

SpecValidate == InitValidate /\ [][NextValidate]_vars

(***************************************************************************)
(* The sanitizer's callers: sanitizeData applied to every string of up to  *)
(* MaxLen code units of a small alphabet, and to values that hold strings. *)
(***************************************************************************)
MaxLen == 4

\* NUL, SOH, tab, line feed, vertical tab, space, a, DEL, no-break space
CodeUnits == {0, 1, 9, 10, 11, 32, 97, 127, 160}

SanitizerInputs ==
    {Str(codes) : codes \in SeqsUpTo(CodeUnits, MaxLen)}
        \cup {Num(123), Null, Undefined,
              Arr(<<Str(<<97, 0, 97>>), Num(1)>>),
              Obj([name |-> Str(<<32, 97, 1>>), data |-> Arr(<<Str(<<97, 9, 10, 97>>)>>)])}

CallSanitizeData ==
    /\ call.op = "sanitizeData" /\ call.ret = None
    /\ call' = [call EXCEPT !.ret = Some(sanitizeData(call.args[1]))]
    /\ UNCHANGED <<pipelineVars, storeVars, readVars, schemaVars>>

InitSanitize ==
    /\ call \in {Pending("sanitizeData", <<data>>) : data \in SanitizerInputs}
    /\ IdlePipeline
    /\ EmptyStore
    /\ IdleRead
    /\ SchemaReady

NextSanitize == CallSanitizeData

SpecSanitize == InitSanitize /\ [][NextSanitize]_vars

(***************************************************************************)
(* One request served by fetchUrls: the fetches of its URLs settle in any  *)
(* order with any outcome, then its rows are saved on session s1.          *)
(***************************************************************************)
RequestUrls ==
    {"http://example.com", "https://httpbin.org/get#top", "http://169.254.169.254/latest"}

\* A 200 whose body has a null byte, a tab and a line feed, and a 404 without
\* a content type and with an empty body.
Responses ==
    {[status |-> 200,
      headers |-> ("content-type" :> Str(<<97, 47, 98>>)),
      data |-> Str(<<32, 72, 0, 105, 9, 10, 33, 32>>)],
     [status |-> 404,
      headers |-> [server |-> Str(<<110>>)],
      data |-> Str(<<>>)]}

Responded(response) ==
    [kind |-> "response", response |-> response, metrics |-> None, logger |-> None]

Failed(error) == [kind |-> "error", error |-> error, metrics |-> None, logger |-> None]

TimedOut == [message |-> "timeout of 5000ms exceeded"]

BadResponse == [message |-> "Request failed with status code 500", response |-> [status |-> 500]]

Outcomes ==
    {Responded(response) : response \in Responses}
        \cup {Failed(TimedOut), Failed(BadResponse),
              [Failed(TimedOut) EXCEPT !.metrics = Some([message |-> "observe failed"])],
              [Failed(TimedOut) EXCEPT !.logger = Some([message |-> "write failed"])]}

\* The errors a statement can fail with whatever it asks for: the transient
\* conditions by their SQLSTATE or socket error code, errors told by their
\* message only, and errors that are none of these.
DbErrors ==
    {[queryFailed |-> TRUE, code |-> "08006", message |-> "server closed the link unexpectedly"],
     [queryFailed |-> TRUE, code |-> "40P01", message |-> "deadlock detected"],
     [queryFailed |-> TRUE, code |-> "55P03", message |-> "lock not available"],
     [queryFailed |-> TRUE, code |-> "57P01",
      message |-> "terminating connection due to administrator command"],
     [queryFailed |-> TRUE, code |-> "57014",
      message |-> "canceling statement due to statement timeout"],
     [queryFailed |-> FALSE, code |-> "ECONNREFUSED", message |-> "connection refused"],
     [queryFailed |-> FALSE, code |-> "ETIMEDOUT", message |-> "connect ETIMEDOUT 10.0.0.5:5432"],
     [queryFailed |-> FALSE, code |-> "ECONNRESET", message |-> "read ECONNRESET"],
     [queryFailed |-> TRUE, message |-> "Connection terminated unexpectedly"],
     [queryFailed |-> FALSE, message |-> "transaction rollback"],
     [queryFailed |-> TRUE, code |-> "25006",
      message |-> "cannot execute INSERT in a read-only transaction"],
     [queryFailed |-> TRUE, code |-> "54000", message |-> "index row size exceeds maximum"],
     [queryFailed |-> FALSE, message |-> "validation failed"]}

\* Two of them, one that becomes a 503 and one that is rethrown, for the
\* specifications that are not about the classification of errors.
SampleErrors == {error \in DbErrors : CodeIn(error, {"57P01", "54000"})}

\* The store after one earlier request saved a 404 of http://example.com/.
EarlierValues ==
    Values(sanitizedResults(<<fetchUrl("http://example.com/",
                                        Responded(CHOOSE r \in Responses : r.status = 404)).value>>)[1])

EarlierStore ==
    /\ table = Upsert({}, EarlierValues, 1, 1)
    /\ seq = 1
    /\ clock = 1
    /\ save = [s \in Sessions |-> IdleSave]
    /\ log = <<[session |-> "s2", values |-> EarlierValues, now |-> 1, after |-> 0, id |-> 1]>>

InitFetch ==
    /\ call = NoCall
    /\ createUrlFetchDto \in {[urls |-> list] : list \in SeqsUpTo(RequestUrls, MaxBatch)}
    /\ pc = "start"
    /\ validation = None
    /\ promises = <<>>
    /\ axios = <<>>
    /\ invoked = <<>>
    /\ requested = <<>>
    /\ handed = <<>>
    /\ reply = None
    /\ (EmptyStore \/ EarlierStore)
    /\ IdleRead
    /\ SchemaReady

NextFetch ==
    \/ CallFetchUrls
    \/ \E i \in 1..MaxBatch, outcome \in Outcomes : Settle(i, outcome)
    \/ Join
    \/ StmtBegin("s1")
    \/ StmtExec("s1")
    \/ \E error \in SampleErrors : StmtFail("s1", error)
    \/ FetchUrlsReturn

SpecFetch == InitFetch /\ [][NextFetch]_vars

\* The request is served and the store answers every statement it is sent;
\* nothing is assumed of the fetches.
SpecFetchLive ==
    /\ SpecFetch
    /\ WF_vars(CallFetchUrls)
    /\ WF_vars(Join)
    /\ WF_vars(StmtBegin("s1"))
    /\ WF_vars(StmtExec("s1") \/ \E error \in SampleErrors : StmtFail("s1", error))
    /\ WF_vars(FetchUrlsReturn)

(***************************************************************************)
(* One request whose fetches are redirected: each GET in flight may be     *)
(* answered with a redirect, to a public or to an internal address, that   *)
(* axios follows.                                                          *)
(***************************************************************************)
RedirectTargets == {"http://example.com/next", "http://169.254.169.254/latest/meta-data/"}

FinalOutcomes == {Responded(CHOOSE r \in Responses : r.status = 200), Failed(TimedOut)}

InitRedirect ==
    /\ InitFetch
    /\ EmptyStore

NextRedirect ==
    \/ CallFetchUrls
    \/ \E i \in 1..MaxBatch, location \in RedirectTargets : Redirect(i, location)
    \/ \E i \in 1..MaxBatch, outcome \in FinalOutcomes : Settle(i, outcome)
    \/ Join
    \/ StmtBegin("s1")
    \/ StmtExec("s1")
    \/ \E error \in SampleErrors : StmtFail("s1", error)
    \/ FetchUrlsReturn

SpecRedirect == InitRedirect /\ [][NextRedirect]_vars

(***************************************************************************)
(* The store under concurrent requests: session s1 saves the results of a  *)
(* batch, session s2 the result of a request for one URL, each as          *)
(* fetchUrls hands them over, and their statements interleave.             *)
(***************************************************************************)
MaxSave == 2

StoreUrls == {"http://example.com/", "https://httpbin.org/get"}

SaveInputs ==
    {sanitizedResults(<<fetchUrl(url, outcome).value>>)[1] :
        url \in StoreUrls,
        outcome \in {Responded(CHOOSE r \in Responses : r.status = 200), Failed(TimedOut)}}

CallSave(s, results) ==
    /\ save[s].status = "idle"
    /\ save' = [save EXCEPT ![s] = saveFetchResults(results)]
    /\ UNCHANGED <<call, readVars, schemaVars, pipelineVars, table, seq, clock, log>>

InitStore ==
    /\ call = NoCall
    /\ IdlePipeline
    /\ EmptyStore
    /\ IdleRead
    /\ SchemaReady

NextStore ==
    \/ \E results \in SeqsUpTo(SaveInputs, MaxSave) : CallSave("s1", results)
    \/ \E result \in SaveInputs : CallSave("s2", <<result>>)
    \/ \E s \in Sessions : StmtBegin(s)
    \/ \E s \in Sessions : StmtExec(s)
    \/ \E s \in Sessions, error \in SampleErrors : StmtFail(s, error)

SpecStore == InitStore /\ [][NextStore]_vars

(***************************************************************************)
(* The reads: GET requests over a store of three rows, two of them of the  *)
(* same fetched_at, while another session upserts one result.              *)
(***************************************************************************)
MaxReads == 2

\* What fetchUrls hands to saveFetchResults for one URL.
Saved(url, outcome) == sanitizedResults(<<fetchUrl(url, outcome).value>>)[1]

\* The upserts that made the store, in order: the result and now().
Stored ==
    <<[result |-> Saved("http://example.com/", Responded(CHOOSE r \in Responses : r.status = 200)),
       now |-> 1],
      [result |-> Saved("https://httpbin.org/get", Responded(CHOOSE r \in Responses : r.status = 404)),
       now |-> 2],
      [result |-> Saved("http://httpbin.org/delay/9", Failed(TimedOut)), now |-> 2]>>

RECURSIVE RowsAfter(_)
RowsAfter(n) ==
    IF n = 0 THEN {}
    ELSE Upsert(RowsAfter(n - 1), Values(Stored[n].result), n, Stored[n].now)

StoredRows ==
    /\ table = RowsAfter(Len(Stored))
    /\ seq = Len(Stored)
    /\ clock = Stored[Len(Stored)].now
    /\ save = [s \in Sessions |-> IdleSave]
    /\ log = [i \in 1..Len(Stored) |->
                [session |-> "s2", values |-> Values(Stored[i].result),
                 now |-> Stored[i].now, after |-> i - 1, id |-> i]]

\* What the other session saves: a new result of a stored URL, or a new URL.
WriterInputs ==
    {Saved("http://example.com/", Responded(CHOOSE r \in Responses : r.status = 404)),
     Saved("https://example.org/", Responded(CHOOSE r \in Responses : r.status = 200))}

NoFilters == [status |-> None, url |-> None, startDate |-> None, endDate |-> None]

Paged(page, limit, filters) ==
    [page |-> page, limit |-> limit, status |-> filters.status, url |-> filters.url,
     startDate |-> filters.startDate, endDate |-> filters.endDate]

Pages == {None, Some("0"), Some("1"), Some("2"), Some("3"), Some("-1")}

Limits == {None, Some("0"), Some("1"), Some("2"), Some("-1"), Some("101")}

Filters ==
    [status : {None, Some("200"), Some("404")},
     url : {None, Some(""), Some("httpbin"), Some("^https")},
     startDate : {None, Some("2")},
     endDate : {None, Some("1")}]

\* The query strings: every page and limit without filters, and every
\* combination of filters on the default page.
Queries ==
    {Paged(page, limit, NoFilters) : page \in Pages, limit \in Limits}
        \cup {Paged(None, None, filters) : filters \in Filters}

Ids == {"1", "3", "7", "abc"}

InitQuery ==
    /\ call = NoCall
    /\ IdlePipeline
    /\ StoredRows
    /\ IdleRead
    /\ SchemaReady

\* The other session saves its result once.
Writer(errors) ==
    \/ \E result \in WriterInputs : CallSave("s2", <<result>>)
    \/ StmtBegin("s2")
    \/ StmtExec("s2")
    \/ \E error \in errors : StmtFail("s2", error)

\* One listing is answered; lookups by id and failed listings repeat.
NextQuery ==
    \/ \E query \in Queries : answers = <<>> /\ CallGetAllUrlFetches(query)
    \/ CountQuery
    \/ DataQuery
    \/ \E id \in Ids : CallGetUrlFetchById(id)
    \/ FindOne
    \/ \E error \in SampleErrors : QueryFail(error)
    \/ Writer(SampleErrors)

SpecQuery == InitQuery /\ [][NextQuery]_vars

(***************************************************************************)
(* Paging: a caller reads page after page of one listing, of limit 1 or 2, *)
(* while nothing is written.                                               *)
(***************************************************************************)
ListingFilters ==
    {NoFilters, [NoFilters EXCEPT !.url = Some("httpbin")],
     [NoFilters EXCEPT !.startDate = Some("2")], [NoFilters EXCEPT !.status = Some("200")]}

Listings ==
    {Paged(page, limit, filters) :
        page \in Pages, limit \in {Some("1"), Some("2")}, filters \in ListingFilters}

\* A caller who has an answer asks for another page of the same listing.
FollowsUp(query) ==
    IF answers = <<>> THEN TRUE
    ELSE [query EXCEPT !.page = None] = [answers[1].query EXCEPT !.page = None]

NextPages ==
    \/ \E query \in Listings :
            Len(answers) < MaxReads /\ FollowsUp(query) /\ CallGetAllUrlFetches(query)
    \/ CountQuery
    \/ DataQuery
    \/ \E error \in SampleErrors : QueryFail(error)

SpecPages == InitQuery /\ [][NextPages]_vars

(***************************************************************************)
(* Failures: each operation on the store, the upsert, the listing and the  *)
(* lookup by id, fails with each of the errors.                            *)
(***************************************************************************)
NextErrors ==
    \/ \E query \in {Paged(None, None, NoFilters), Paged(Some("-1"), None, NoFilters)} :
            answers = <<>> /\ CallGetAllUrlFetches(query)
    \/ CountQuery
    \/ DataQuery
    \/ \E id \in Ids : CallGetUrlFetchById(id)
    \/ FindOne
    \/ \E error \in DbErrors : QueryFail(error)
    \/ Writer(DbErrors)

SpecErrors == InitQuery /\ [][NextErrors]_vars

(***************************************************************************)
(* Process starts: initializeDatabase run from every schema a database can *)
(* be found with, and run again.                                           *)
(***************************************************************************)
MaxRuns == 2

\* The schemas: without the table nothing is indexed, and the trigram index
\* needs pg_trgm.
Schemas ==
    {sch \in [table : BOOLEAN, indexes : SUBSET Indexes, extension : BOOLEAN] :
        /\ ~sch.table => sch.indexes = {}
        /\ "idx_url_trgm" \in sch.indexes => sch.extension}

BootErrors ==
    SampleErrors
        \cup {[queryFailed |-> TRUE, code |-> "42501",
               message |-> "permission denied to create extension \"pg_trgm\""]}

InitBoot ==
    /\ call = NoCall
    /\ IdlePipeline
    /\ EmptyStore
    /\ IdleRead
    /\ schema \in Schemas
    /\ boot = IdleBoot

NextBoot ==
    \/ boot.run < MaxRuns /\ StartProcess
    \/ TableExists
    \/ CreateTable
    \/ CreateIndexes
    \/ CreateTrgm
    \/ \E error \in BootErrors : BootFail(error)

SpecBoot == InitBoot /\ [][NextBoot]_vars

(***************************************************************************)
(* A process start with the service in use: the constructor has called     *)
(* initializeDatabase and returned, and saveFetchResults is called while   *)
(* the bootstrap goes on, against a database with or without the table.    *)
(***************************************************************************)
\* What a statement on url_fetches fails with when the table is not there.
UndefinedTable ==
    [queryFailed |-> TRUE, code |-> "42P01", message |-> "relation \"url_fetches\" does not exist"]

\* The upsert reaches a database without the table.
StmtUndefinedTable(s) == ~schema.table /\ StmtFail(s, UndefinedTable)

InitStart ==
    /\ call = NoCall
    /\ IdlePipeline
    /\ EmptyStore
    /\ IdleRead
    /\ schema \in {sch \in Schemas : sch.table => sch = FullSchema}
    /\ boot = IdleBoot

NextStart ==
    \/ boot.run = 0 /\ StartProcess
    \/ TableExists
    \/ CreateTable
    \/ CreateIndexes
    \/ CreateTrgm
    \/ \E error \in BootErrors : BootFail(error)
    \/ boot.run > 0 /\ \E results \in SeqsUpTo(SaveInputs, MaxSave) : CallSave("s1", results)
    \/ StmtBegin("s1")
    \/ schema.table /\ StmtExec("s1")
    \/ StmtUndefinedTable("s1")
    \/ \E error \in SampleErrors : StmtFail("s1", error)

SpecStart == InitStart /\ [][NextStart]_vars

(***************************************************************************)
(* The validator's claims                                                  *)
(***************************************************************************)
Returned(op) == call.op = op /\ call.ret # None

\* The address a hostname names: an IPv6 literal is written in brackets.
HostAddress(hostname) ==
    IF StartsWith(hostname, "[") /\ EndsWith(hostname, "]")
    THEN SubSeq(hostname, 2, Len(hostname) - 1)
    ELSE hostname

\* An http(s) URL free of suspicious characters whose host is in the blocklist.
NamesBlockedHost(url) ==
    /\ Chars(url) \cap SUSPICIOUS_CHARS = {}
    /\ Eval(ParseUrl(url), LAMBDA p :
          /\ p.ok
          /\ p.protocol \in ALLOWED_PROTOCOLS
          /\ HostAddress(p.hostname) \in BLOCKED_HOSTNAMES)

\* C2: every http/https URL whose host is one of localhost, 127.0.0.1, ::1,
\* 0.0.0.0, metadata.google.internal, 169.254.169.254, 169.254.170.2, in any
\* letter case, is rejected by validateUrl with the 'hostname not allowed'
\* reason naming that hostname.
C2_BlockedHostRejected ==
    (Returned("validateUrl") /\ NamesBlockedHost(Arg))
        => /\ ~The(call.ret).isValid
           /\ The(call.ret).error
                = Some(ErrHostname(HostAddress(ParseUrl(Arg).hostname)))

\* The octets of a dotted quad a.b.c.d, each in 0..255; <<>> for any other hostname.
QuadOctets(hostname) ==
    Eval(Split(hostname, "."), LAMBDA parts :
        IF /\ Len(parts) = 4
           /\ \A i \in 1..4 : /\ parts[i] # ""
                              /\ Len(parts[i]) <= 3
                              /\ Chars(parts[i]) \subseteq Chars(Digits)
                              /\ NumVal(parts[i], 10) <= 255
        THEN [i \in 1..4 |-> NumVal(parts[i], 10)]
        ELSE <<>>)

\* 10.0.0.0/8, 172.16.0.0/12, 192.168.0.0/16, 169.254.0.0/16, 127.0.0.0/8
InPrivateRange(o) ==
    \/ o[1] = 10
    \/ o[1] = 172 /\ o[2] \in 16..31
    \/ o[1] = 192 /\ o[2] = 168
    \/ o[1] = 169 /\ o[2] = 254
    \/ o[1] = 127

\* C3: isPrivateIp returns true exactly for the dotted quads in 10.0.0.0/8,
\* 172.16.0.0/12, 192.168.0.0/16, 169.254.0.0/16 and 127.0.0.0/8, and false
\* for every other dotted quad and for every hostname that is not one.
C3_PrivateIpv4Classification ==
    Returned("isPrivateIp")
        => Eval(QuadOctets(Arg), LAMBDA o :
              The(call.ret) = (o # <<>> /\ InPrivateRange(o)))

\* A quad on the upper edge of 172.16.0.0/12 was classified private.
C3_Witness ==
    /\ Returned("isPrivateIp")
    /\ Arg = "172.31.0.1"
    /\ The(call.ret) = TRUE

\* The check of validateUrl a reported reason belongs to.
ReasonKind(result) ==
    IF result.isValid THEN "none"
    ELSE Eval(The(result.error), LAMBDA e :
            CASE StartsWith(e, "URL contains suspicious characters") -> "suspicious"
              [] StartsWith(e, "Invalid URL format") -> "format"
              [] StartsWith(e, "Protocol '") -> "protocol"
              [] StartsWith(e, "Hostname '") -> "hostname"
              [] StartsWith(e, "Private/internal IP") -> "private"
              [] StartsWith(e, "Cloud metadata servers") -> "metadata"
              [] OTHER -> "other")

\* The checks of validateUrl that url fails, each taken on its own.
FailedChecks(url) ==
    Eval(ParseUrl(url), LAMBDA p :
    Eval(IF p.ok THEN toLowerCase(p.hostname) ELSE "", LAMBDA h :
        {k \in {"suspicious"} : Chars(url) \cap SUSPICIOUS_CHARS # {}}
            \cup {k \in {"format"} : ~p.ok}
            \cup {k \in {"protocol"} : p.ok /\ p.protocol \notin ALLOWED_PROTOCOLS}
            \cup {k \in {"hostname"} : p.ok /\ h \in BLOCKED_HOSTNAMES}
            \cup {k \in {"private"} : p.ok /\ isPrivateIp(h)}
            \cup {k \in {"metadata"} : p.ok /\ isCloudMetadataServer(h)}))

CheckOrder == <<"suspicious", "format", "protocol", "hostname", "private", "metadata">>

\* C4: the reported reason is that of the first check, in the order
\* suspicious characters, parse, protocol, hostname blocklist, private IPv4,
\* cloud metadata, that the URL fails; a URL failing none is accepted.
C4_FirstFailingCheckWins ==
    Returned("validateUrl")
        => Eval(FailedChecks(Arg), LAMBDA failed :
              IF failed = {} THEN ReasonKind(The(call.ret)) = "none"
              ELSE \E i \in 1..Len(CheckOrder) :
                      /\ CheckOrder[i] \in failed
                      /\ \A j \in 1..(i - 1) : CheckOrder[j] \notin failed
                      /\ ReasonKind(The(call.ret)) = CheckOrder[i])

\* A hostname both in the blocklist and in a private range was reported as
\* 'hostname not allowed'.
C4_Witness ==
    /\ Returned("validateUrl")
    /\ Arg = "http://127.0.0.1"
    /\ {"hostname", "private"} \subseteq FailedChecks(Arg)
    /\ The(call.ret).error = Some(ErrHostname("127.0.0.1"))

\* C5: validateUrls gives every input position exactly one entry, the
\* canonical form in validUrls or the raw url and reason in invalidUrls, and
\* both lists keep the input order.
C5_ValidateUrlsPartitions ==
    Returned("validateUrls")
        => Eval(SelectSeq(call.args, LAMBDA u : validateUrl(u).isValid), LAMBDA accepted :
           Eval(SelectSeq(call.args, LAMBDA u : ~validateUrl(u).isValid), LAMBDA rejected :
              /\ Len(The(call.ret).validUrls) + Len(The(call.ret).invalidUrls) = Len(call.args)
              /\ The(call.ret).validUrls
                    = [i \in 1..Len(accepted) |-> The(validateUrl(accepted[i]).sanitizedUrl)]
              /\ The(call.ret).invalidUrls
                    = [i \in 1..Len(rejected) |->
                          [url |-> rejected[i], error |-> The(validateUrl(rejected[i]).error)]]))

\* A list with a rejected URL ahead of an accepted one was split one and one.
C5_Witness ==
    /\ Returned("validateUrls")
    /\ call.args = <<"http://localhost", "https://httpbin.org/get#top">>
    /\ The(call.ret).validUrls = <<"https://httpbin.org/get">>
    /\ Len(The(call.ret).invalidUrls) = 1

(***************************************************************************)
(* The pipeline's claims                                                   *)
(***************************************************************************)
\* validateUrls reported at least one rejected URL for the request.
BatchRejected == validation # None /\ Len(The(validation).invalidUrls) > 0

\* validateUrls accepted every URL of a request that has some.
BatchAccepted ==
    /\ validation # None
    /\ Len(The(validation).invalidUrls) = 0
    /\ Len(The(validation).validUrls) > 0

\* C1: when validateUrls reports at least one invalid URL, fetchUrls throws a
\* BadRequest (400) carrying invalidUrls, validUrlsCount and invalidUrlsCount,
\* fetchUrl is never invoked, saveFetchResults is never called and the store
\* is as it was, however many URLs of the batch were accepted.
C1_AllOrNothingValidation ==
    BatchRejected
        => /\ reply = Some(Throw(BadRequestException(
                        [message |-> "Some URLs failed security validation",
                         invalidUrls |-> The(validation).invalidUrls,
                         validUrlsCount |-> Len(The(validation).validUrls),
                         invalidUrlsCount |-> Len(The(validation).invalidUrls)])))
           /\ The(reply).exception.status = 400
           /\ invoked = <<>>
           /\ handed = <<>>
           /\ save["s1"] = IdleSave
           /\ (EmptyStore \/ EarlierStore)

\* A batch of one accepted and one rejected URL was refused with the store
\* holding a row.
C1_Witness ==
    /\ BatchRejected
    /\ Len(The(validation).validUrls) = 1
    /\ reply # None
    /\ The(reply).exception.response.validUrlsCount = 1
    /\ The(reply).exception.response.invalidUrls[1].url = "http://169.254.169.254/latest"
    /\ table # {}

\* promises[i] holds a FetchResult that fetchUrl returned.
FromFetchUrl(i) ==
    /\ axios[i] # None
    /\ The(axios[i]).metrics = None
    /\ The(axios[i]).logger = None

HasStatus(result) == Get(result, "responseStatus") # Undefined

HasError(result) == "error" \in DOMAIN result

\* The attempt received an HTTP response: returned by axios, or carried by
\* the error it threw.
GotResponse(outcome) == outcome.kind = "response" \/ "response" \in DOMAIN outcome.error

\* C6 as stated: every FetchResult returned by fetchUrl carries exactly one
\* of responseStatus or error: error and no status when there was no server
\* response, status and no error when any HTTP response was received.
C6_ExactlyOneOfStatusOrError ==
    \A i \in 1..Len(promises) :
        FromFetchUrl(i)
            => /\ HasStatus(promises[i].value) # HasError(promises[i].value)
               /\ GotResponse(The(axios[i]))
                    => HasStatus(promises[i].value) /\ ~HasError(promises[i].value)
               /\ ~GotResponse(The(axios[i]))
                    => HasError(promises[i].value) /\ ~HasStatus(promises[i].value)

\* C6: every FetchResult returned by fetchUrl carries error exactly when
\* axios.get threw, and responseStatus exactly when an HTTP response was
\* available, returned or carried by the thrown error; so it carries at least
\* one of the two, and both when the thrown error carries a response.
C6_StatusIffResponseErrorIffThrown ==
    \A i \in 1..Len(promises) :
        FromFetchUrl(i)
            => /\ HasError(promises[i].value) <=> The(axios[i]).kind = "error"
               /\ HasStatus(promises[i].value) <=> GotResponse(The(axios[i]))
               /\ HasStatus(promises[i].value) \/ HasError(promises[i].value)
               /\ The(axios[i]).kind = "response"
                    => promises[i].value.responseStatus = Num(The(axios[i]).response.status)

\* axios threw an error carrying a 500 response: the result has both the
\* status and the error.
C6_Witness ==
    \E i \in 1..Len(promises) :
        /\ FromFetchUrl(i)
        /\ The(axios[i]) = Failed(BadResponse)
        /\ promises[i].value.responseStatus = Num(500)
        /\ promises[i].value.error = "HTTP 500: Request failed with status code 500"

\* The fetch of a URL failed or threw.
FetchFailed(outcome) ==
    outcome.kind = "error" \/ outcome.metrics # None \/ outcome.logger # None

\* C7: for an accepted batch of N validated URLs the one list handed to
\* saveFetchResults has N entries in input order, one per URL: a failed fetch
\* is an entry with the URL and an error at its position and without response
\* data, a successful one an entry with its status; fetchUrls never throws on
\* account of a fetch, only after the list was handed over.
C7_OneResultPerUrlInOrder ==
    /\ Len(handed) <= 1
    /\ (BatchAccepted /\ pc \in {"saving", "done"}) => Len(handed) = 1
    /\ pc = "fetching" => reply = None
    /\ (BatchAccepted /\ reply # None /\ The(reply).kind = "throw")
            => Len(handed) = 1 /\ save["s1"].status = "threw"
    /\ handed # <<>>
            => /\ Len(handed[1]) = Len(The(validation).validUrls)
               /\ invoked = The(validation).validUrls
               /\ \A i \in 1..Len(handed[1]) :
                    /\ handed[1][i].url = The(validation).validUrls[i]
                    /\ FetchFailed(The(axios[i])) <=> HasError(handed[1][i])
                    /\ FetchFailed(The(axios[i]))
                          => DOMAIN handed[1][i] \subseteq {"url", "error", "responseStatus"}
                    /\ ~FetchFailed(The(axios[i]))
                          => handed[1][i].responseStatus
                                = Num(The(axios[i]).response.status)

\* Of two URLs the first fetch was rejected and the second answered 200: both
\* entries were handed over in input order and fetchUrls returned two rows.
C7_Witness ==
    /\ Len(handed) = 1
    /\ Len(handed[1]) = 2
    /\ The(axios[1]).logger # None
    /\ handed[1][1] = [url |-> The(validation).validUrls[1], error |-> "write failed"]
    /\ ~HasError(handed[1][2])
    /\ handed[1][2].responseStatus = Num(200)
    /\ reply # None
    /\ The(reply).kind = "return"
    /\ Len(The(reply).value) = 2

(***************************************************************************)
(* The store's claims                                                      *)
(***************************************************************************)
\* The URLs saved so far.
SavedUrls == {log[i].values.url : i \in 1..Len(log)}

\* The completed upserts of url, by their place in the order of completion.
UpsertsOf(url) == {i \in 1..Len(log) : log[i].values.url = url}

\* C8: under every interleaving of saveFetchResults calls the table holds at
\* most one row per url, as many rows as distinct URLs were saved, and a row
\* for every URL ever saved.
C8_OneRowPerUrl ==
    /\ \A r1 \in table, r2 \in table : r1.url = r2.url => r1 = r2
    /\ Cardinality(table) = Cardinality(SavedUrls)
    /\ \A url \in SavedUrls : \E r \in table : r.url = url

\* One batch saved the same URL twice and a concurrent request saved it
\* too, its statement overlapping one of the batch: the table holds one row.
C8_Witness ==
    /\ Len(log) = 3
    /\ Cardinality(table) = 1
    /\ Cardinality({i \in 1..3 : log[i].session = "s1"}) = 2
    /\ log[1].session # log[2].session
    /\ log[2].now < log[1].now

\* C9: every upsert of a URL returns the id its row was created with, the
\* row keeps that id, and no two rows share an id.
C9_IdStable ==
    /\ \A i \in 1..Len(log), j \in 1..Len(log) :
            log[i].values.url = log[j].values.url => log[i].id = log[j].id
    /\ \A r \in table : \A i \in UpsertsOf(r.url) : log[i].id = r.id
    /\ \A r1 \in table, r2 \in table : r1.id = r2.id => r1.url = r2.url
    /\ \A s \in Sessions : \A k \in 1..Len(save[s].savedResults) :
            \A r \in table : r.url = save[s].savedResults[k].url
                                => r.id = save[s].savedResults[k].id

\* A row created with id 1 was upserted again before a second URL got id 3.
C9_Witness ==
    /\ Len(log) = 3
    /\ log[1].values.url = log[2].values.url
    /\ log[1].session # log[2].session
    /\ {r.id : r \in table} = {1, 3}

\* The row shows the values and the statement time of the upsert.
RowShows(r, upsert) ==
    /\ r.response_status = upsert.values.response_status
    /\ r.response_headers = upsert.values.response_headers
    /\ r.response_body = upsert.values.response_body
    /\ r.content_type = upsert.values.content_type
    /\ r.fetched_at = upsert.now

\* C10 as stated: a row shows the values and the time of the most recently
\* completed upsert of its URL, and its fetchedAt never decreases from one
\* completed upsert of the URL to the next.
C10_FetchedAtNeverDecreases ==
    /\ \A r \in table : RowShows(r, log[Max(UpsertsOf(r.url))])
    /\ \A i \in 1..Len(log), j \in 1..Len(log) :
            (i < j /\ log[i].values.url = log[j].values.url) => log[i].now <= log[j].now

\* C10: a row shows the values of the most recently completed upsert of its
\* URL and, as fetchedAt, the time that upsert's statement started; fetchedAt
\* does not decrease from one upsert of the URL to a later one that started
\* after the earlier one completed.
C10_LastCompletedUpsertWins ==
    /\ \A r \in table : RowShows(r, log[Max(UpsertsOf(r.url))])
    /\ \A i \in 1..Len(log), j \in 1..Len(log) :
            (i < j /\ log[i].values.url = log[j].values.url /\ log[j].after >= i)
                => log[i].now <= log[j].now

\* A 200 of a URL was saved, then, by the other session and later, a
\* failed fetch of it: the row shows the failed fetch and the later time.
C10_Witness ==
    /\ Len(log) = 2
    /\ log[1].values.url = log[2].values.url
    /\ log[1].session # log[2].session
    /\ log[1].values.response_status = Num(200)
    /\ log[2].values.response_status = Null
    /\ log[2].after >= 1
    /\ log[2].now > log[1].now
    /\ \E r \in table : r.response_status = Null /\ r.fetched_at = log[2].now

\* A statement that has begun and not yet completed or failed.
InFlight(s) == save[s].status = "running" /\ save[s].now # None

\* C11: every row has its response fields and fetchedAt from one single
\* upsert of its URL, whatever upserts of the URL overlapped, and a statement
\* that has begun can always complete: what the other session wrote in the
\* meantime, a row for the same URL included, never stands in its way.
C11_RowFromOneUpsert ==
    /\ \A r \in table : \E i \in UpsertsOf(r.url) : RowShows(r, log[i])
    /\ \A s \in Sessions : InFlight(s) => ENABLED StmtExec(s)

\* Two sessions upserted different results of one URL, the second statement
\* having begun before the first completed, and a third is in flight.
C11_Witness ==
    /\ Len(log) = 2
    /\ log[1].values.url = log[2].values.url
    /\ log[1].values # log[2].values
    /\ log[1].session # log[2].session
    /\ log[2].after = 0
    /\ Cardinality(table) = 1
    /\ InFlight("s1")
    /\ Current("s1").url = log[1].values.url

\* fetchUrls returned the records of saveFetchResults.
FetchUrlsReturned == reply # None /\ The(reply).kind = "return"

\* C12 as stated: the records fetchUrls returns are one per distinct URL of
\* the batch, so no two of them are of the same URL.
C12_OneRecordPerDistinctUrl ==
    FetchUrlsReturned
        => \A i \in 1..Len(The(reply).value), j \in 1..Len(The(reply).value) :
                The(reply).value[i].url = The(reply).value[j].url => i = j

(***************************************************************************)
(* The claims about the reads                                              *)
(***************************************************************************)
\* The listing has been answered with a value.
Listed ==
    read.op = "getAllUrlFetches" /\ read.outcome # None /\ The(read.outcome).kind = "return"

\* The filters the caller supplied hold of row r: those absent exclude nothing.
Satisfies(r, query) ==
    /\ query.status # None => r.response_status = Num(NumVal(The(query.status), 10))
    /\ query.url # None => RegexMatch(r.url, The(query.url))
    /\ query.startDate # None => r.fetched_at >= NumVal(The(query.startDate), 10)
    /\ query.endDate # None => r.fetched_at <= NumVal(The(query.endDate), 10)

Filtered(rows, query) == {r \in rows : Satisfies(r, query)}

\* data is the stretch from offset on, of length at most limit, of one of
\* the orders of rows by fetched_at descending.
IsSlice(data, rows, limit, offset) ==
    /\ Len(data) = Min({limit, Max({0, Cardinality(rows) - offset})})
    /\ \A k \in DOMAIN data :
            /\ data[k] \in rows
            /\ Cardinality({r \in rows : r.fetched_at > data[k].fetched_at}) <= offset + k - 1
            /\ Cardinality({r \in rows : r.fetched_at >= data[k].fetched_at}) >= offset + k
    /\ \A k \in DOMAIN data, l \in DOMAIN data :
            /\ data[k] = data[l] => k = l
            /\ k < l => data[k].fetched_at >= data[l].fetched_at

\* C13: a listing answered with nothing written between its two queries,
\* for page >= 1 and limit >= 1, has as totalItems the number of rows of the
\* store that match the filters, as totalPages ceil(totalItems / limit), as
\* data the slice of the matching rows by fetchedAt descending from offset
\* (page-1)*limit, of length min(limit, max(0, totalItems - offset)), and
\* echoes page and limit.
C13_PaginatedResult ==
    (Listed /\ read.counted = read.listed /\ read.options.page >= 1 /\ read.options.limit >= 1)
        => /\ The(read.outcome).value.pagination.totalItems
                = Cardinality(Filtered(The(read.listed), read.query))
           /\ \E totalPages \in {The(read.outcome).value.pagination.totalPages} :
                /\ totalPages * read.options.limit
                        >= The(read.outcome).value.pagination.totalItems
                /\ (totalPages - 1) * read.options.limit
                        < The(read.outcome).value.pagination.totalItems
                /\ totalPages >= 0
           /\ IsSlice(The(read.outcome).value.data, Filtered(The(read.listed), read.query),
                      read.options.limit, (read.options.page - 1) * read.options.limit)
           /\ The(read.outcome).value.pagination.page = read.options.page
           /\ The(read.outcome).value.pagination.limit = read.options.limit

\* Page 2 of limit 2 of the three rows was answered: one row, the oldest.
C13_Witness ==
    /\ Listed
    /\ read.counted = read.listed
    /\ read.options.page = 2 /\ read.options.limit = 2
    /\ The(read.outcome).value.pagination.totalItems = 3
    /\ The(read.outcome).value.pagination.totalPages = 2
    /\ Len(The(read.outcome).value.data) = 1
    /\ The(read.outcome).value.data[1].fetched_at = 1

\* The records of answer a.
Records(a) == {The(a.outcome).value.data[k] : k \in DOMAIN The(a.outcome).value.data}

\* Answers i and j are pages of one listing of an unchanged store.
SameListing(i, j) ==
    /\ answers[i].listed = answers[j].listed
    /\ answers[i].counted = answers[i].listed
    /\ answers[j].counted = answers[j].listed
    /\ [answers[i].options EXCEPT !.page = 0] = [answers[j].options EXCEPT !.page = 0]

\* C14 as stated: over an unchanged store and a fixed limit and filter set,
\* the data of two different pages share no record, and the pages
\* 1..totalPages, once all are answered, hold exactly the filtered rows,
\* rows of equal fetchedAt included.
C14_PagesDoNotOverlap ==
    \A i \in DOMAIN answers, j \in DOMAIN answers :
        (SameListing(i, j) /\ answers[i].options.page # answers[j].options.page)
            => /\ Records(answers[i]) \cap Records(answers[j]) = {}
               /\ {answers[i].options.page, answers[j].options.page}
                        = 1..The(answers[i].outcome).value.pagination.totalPages
                    => Records(answers[i]) \cup Records(answers[j])
                            = Filtered(The(answers[i].listed), answers[i].query)

\* C15 as stated: whatever integers page and limit are, the listing does
\* not fail on their account and the offset sent to the store is not
\* negative.
C15_OutOfRangeTolerated ==
    read.op = "getAllUrlFetches"
        => /\ (read.options.page - 1) * read.options.limit >= 0
           /\ read.caught # None => ~CodeIn(The(read.caught), {"2201X", "2201W"})

\* C16 as stated: page is 1 when absent, limit is 10 when absent, and the
\* limit of the data query is at most 100.
C16_DefaultsAndCap ==
    read.op = "getAllUrlFetches"
        => /\ read.query.page = None => read.options.page = 1
           /\ read.query.limit = None => read.options.limit = 10
           /\ read.options.limit <= 100

\* C17: the rows counted and the rows listed are those that satisfy every
\* filter supplied, of the store each query saw: totalItems is their number
\* at the count, data holds only such rows and, when the page has room for
\* all of them, every one.
C17_FiltersComposeWithAnd ==
    Listed
        => /\ The(read.outcome).value.pagination.totalItems
                = Cardinality(Filtered(The(read.counted), read.query))
           /\ Records(read) \subseteq Filtered(The(read.listed), read.query)
           /\ (read.options.page = 1
                    /\ read.options.limit >= Cardinality(Filtered(The(read.listed), read.query)))
                => Records(read) = Filtered(The(read.listed), read.query)

\* A listing with a status, a pattern and a start date was answered with the
\* one row of four that satisfies all three, after the other session's
\* upsert of a new URL.
C17_Witness ==
    /\ Listed
    /\ read.query.status = Some("404")
    /\ read.query.url = Some("httpbin")
    /\ read.query.startDate = Some("2")
    /\ read.query.endDate = None
    /\ Cardinality(The(read.listed)) = 4
    /\ The(read.outcome).value.pagination.totalItems = 1
    /\ Len(The(read.outcome).value.data) = 1
    /\ Cardinality({r \in The(read.listed) : r.response_status = Num(404)}) = 1
    /\ Cardinality({r \in The(read.listed) : RegexMatch(r.url, "httpbin")}) = 2

(***************************************************************************)
(* The claims about failures of the store                                  *)
(***************************************************************************)
\* The failures so far: the error an operation caught and what it threw.
Failures ==
    {[op |-> "saveFetchResults", caught |-> The(save[s].caught), outcome |-> The(save[s].outcome)] :
        s \in {t \in Sessions : save[t].caught # None}}
    \cup {[op |-> read.op, caught |-> The(read.caught), outcome |-> The(read.outcome)] :
            r \in {x \in {read} : x.op # "none" /\ x.caught # None}}

\* The transient conditions: a connection failure (SQLSTATE class 08 or a
\* socket error), a deadlock, a lock timeout, an admin shutdown, a query
\* timeout.
TransientCondition(error) ==
    \/ CodeIn(error, {"08000", "08001", "08003", "08004", "08006", "08007"})
    \/ CodeIn(error, {"ECONNREFUSED", "ECONNRESET", "ENOTFOUND", "ETIMEDOUT"})
    \/ CodeIn(error, {"40P01", "55P03", "57P01", "57014"})

\* C18 as stated: an upsert, listing or lookup by id that fails with a
\* transient condition throws ServiceUnavailable, status 503, with message
\* 'Service temporarily unavailable', and returns no value.
C18_TransientBecomes503 ==
    \A f \in Failures :
        TransientCondition(f.caught)
            => f.outcome = Throw([name |-> "ServiceUnavailableException", status |-> 503,
                                  response |-> [message |-> "Service temporarily unavailable"]])

\* C19 as stated: an error that is not one of the transient conditions is
\* rethrown as it is.
C19_OthersRethrown ==
    \A f \in Failures : ~TransientCondition(f.caught) => f.outcome = Throw(f.caught)

\* The error has none of the marks handleDatabaseError goes by: a listed
\* SQLSTATE on a QueryFailedError, a listed socket code, one of five words
\* in the message.
Unmarked(error) ==
    /\ ~(error.queryFailed
            /\ CodeIn(error, {"08000", "08001", "08003", "08004", "08006", "08007",
                              "40P01", "55P03", "57P01", "57P02", "57P03"}))
    /\ ~CodeIn(error, {"ECONNREFUSED", "ENOTFOUND", "ETIMEDOUT", "connection", "timeout"})
    /\ \A word \in {"timeout", "connection", "deadlock", "transaction", "lock"} :
            ~Includes(error.message, word)

\* C19: an error without any of the marks is rethrown as it is, by the
\* upsert, the listing and the lookup alike; an error with a mark becomes
\* the 503, also when the mark is only a word of its message.
C19_UnmarkedRethrown ==
    \A f \in Failures :
        /\ Unmarked(f.caught) => f.outcome = Throw(f.caught)
        /\ ~Unmarked(f.caught) => f.outcome = Throw(ServiceUnavailableException)

\* The lookup rethrew 'validation failed' and the upsert rethrew a failure
\* of the statement that is not transient.
C19_Witness ==
    /\ read.op = "getUrlFetchById"
    /\ read.caught = Some([queryFailed |-> FALSE, message |-> "validation failed"])
    /\ read.outcome = Some(Throw([queryFailed |-> FALSE, message |-> "validation failed"]))
    /\ save["s2"].caught # None
    /\ CodeIn(The(save["s2"].caught), {"54000"})
    /\ save["s2"].outcome = Some(Throw(The(save["s2"].caught)))

(***************************************************************************)
(* The claim about the schema                                              *)
(***************************************************************************)
\* C20 as stated: a run of initializeDatabase that finishes without error,
\* whatever schema it found, leaves the table and all four indexes present,
\* and a run that found them all changes nothing.
C20_BootstrapCompletes ==
    (boot.pc = "done" /\ The(boot.outcome).kind = "return")
        => /\ schema.table
           /\ schema.indexes = {"idx_url", "idx_status", "idx_fetched_at", "idx_url_trgm"}
           /\ (The(boot.before).table /\ The(boot.before).indexes = schema.indexes)
                => schema = The(boot.before)

(***************************************************************************)
(* The claims about the sanitizer                                          *)
(***************************************************************************)
\* The control characters the claim names: 0x00-0x08, 0x0B, 0x0C,
\* 0x0E-0x1F, 0x7F.
Controls == (0..8) \cup {11, 12} \cup (14..31) \cup {127}

\* White space that is not among them: tab, line feed, carriage return,
\* space, and the white space beyond ASCII.
Blanks == WhiteSpace \ Controls

\* The positions of codes that hold neither a control character nor white
\* space.
SolidAt(codes) ==
    SelectSeq([i \in 1..Len(codes) |-> i], LAMBDA i : codes[i] \notin Controls \cup Blanks)

\* out is codes cleaned: its characters other than spaces are the solid
\* characters of codes in order, with one space between two of them exactly
\* where codes has white space between them, and nothing else.
Cleaned(codes, out) ==
    \E from \in {SolidAt(codes)} : \E to \in {SolidAt(out)} :
        /\ Len(from) = Len(to)
        /\ \A k \in DOMAIN from : out[to[k]] = codes[from[k]]
        /\ \A i \in DOMAIN out : out[i] \notin Controls /\ (out[i] \in Blanks => out[i] = 32)
        /\ Len(out) = IF to = <<>> THEN 0 ELSE to[Len(to)]
        /\ to # <<>> => to[1] = 1
        /\ \A k \in 1..(Len(from) - 1) :
                to[k + 1] - to[k] =
                    IF \E i \in (from[k] + 1)..(from[k + 1] - 1) : codes[i] \in Blanks
                    THEN 2 ELSE 1

\* C21: for a string, sanitizeData returns a string with no control
\* character, no two white-space characters in a row and none at either
\* end; the characters removed leave no space behind, and every run of white
\* space between two kept characters becomes one space.
C21_SanitizedStringsClean ==
    (Returned("sanitizeData") /\ call.args[1].type = "string")
        => /\ The(call.ret).type = "string"
           /\ \A i \in DOMAIN The(call.ret).codes : The(call.ret).codes[i] \notin Controls
           /\ \A i \in 1..(Len(The(call.ret).codes) - 1) :
                ~(The(call.ret).codes[i] \in WhiteSpace
                    /\ The(call.ret).codes[i + 1] \in WhiteSpace)
           /\ The(call.ret).codes # <<>>
                => /\ The(call.ret).codes[1] \notin WhiteSpace
                   /\ The(call.ret).codes[Len(The(call.ret).codes)] \notin WhiteSpace
           /\ Cleaned(call.args[1].codes, The(call.ret).codes)

\* a, SOH, a became aa in one call; in another a, tab, line feed, a became
\* a, space, a.
C21_Witness ==
    /\ Returned("sanitizeData")
    /\ \/ call.args[1] = Str(<<97, 1, 97>>) /\ The(call.ret) = Str(<<97, 97>>)
       \/ call.args[1] = Str(<<97, 9, 10, 97>>) /\ The(call.ret) = Str(<<97, 32, 97>>)

(***************************************************************************)
(* The claims about what is handed to the store                            *)
(***************************************************************************)
\* What the fetch stage produced for the i-th validated URL: the value of
\* its promise, or the error result made of its rejection.
Fetched(i) ==
    IF promises[i].status = "fulfilled" THEN promises[i].value
    ELSE [url |-> The(validation).validUrls[i], error |-> promises[i].reason.message]

\* The strings of a value, at any depth.
RECURSIVE StringsOf(_)
StringsOf(data) ==
    IF data.type = "string" THEN {data.codes}
    ELSE IF data.type = "array"
    THEN UNION {StringsOf(data.items[i]) : i \in DOMAIN data.items}
    ELSE IF data.type = "object"
    THEN UNION {StringsOf(data.props[key]) : key \in DOMAIN data.props}
    ELSE {}

\* C22: a result handed to saveFetchResults that carries no error has the
\* url and responseStatus the fetch produced and its responseHeaders,
\* responseBody and contentType as sanitizeData returns them, so that no
\* string of them holds a control character; a result that carries an error
\* is handed over as the fetch stage produced it.
C22_SanitizeBeforePersist ==
    \A n \in DOMAIN handed :
        /\ Len(handed[n]) = Len(promises)
        /\ \A k \in DOMAIN handed[n] :
             IF HasError(Fetched(k))
             THEN handed[n][k] = Fetched(k)
             ELSE /\ DOMAIN handed[n][k] = DOMAIN Fetched(k)
                  /\ handed[n][k].url = Fetched(k).url
                  /\ handed[n][k].responseStatus = Fetched(k).responseStatus
                  /\ handed[n][k].responseHeaders = sanitizeData(Fetched(k).responseHeaders)
                  /\ handed[n][k].responseBody = sanitizeData(Fetched(k).responseBody)
                  /\ handed[n][k].contentType = sanitizeData(Fetched(k).contentType)
                  /\ \A codes \in StringsOf(handed[n][k].responseHeaders)
                                    \cup StringsOf(handed[n][k].responseBody)
                                    \cup StringsOf(handed[n][k].contentType) :
                        \A i \in DOMAIN codes : codes[i] \notin Controls

\* A response whose body held a NUL and a failed fetch were handed over
\* together: the body without the NUL, the failure as it was.
C22_Witness ==
    /\ Len(handed) = 1
    /\ Len(handed[1]) = 2
    /\ ~HasError(handed[1][1])
    /\ 0 \in {Fetched(1).responseBody.codes[i] : i \in DOMAIN Fetched(1).responseBody.codes}
    /\ handed[1][1].responseBody # Fetched(1).responseBody
    /\ HasError(handed[1][2])
    /\ handed[1][2] = Fetched(2)

\* C23: an accepted URL's sanitizedUrl is the serialization of the parsed
\* URL with its fragment removed, so it holds no '#'; http://example.com
\* yields http://example.com/; a rejected URL carries no sanitizedUrl.
C23_CanonicalForm ==
    Returned("validateUrl")
        => Eval(The(call.ret), LAMBDA result :
              IF result.isValid
              THEN /\ ParseUrl(Arg).ok
                   /\ result.sanitizedUrl = Some(Href([ParseUrl(Arg) EXCEPT !.hash = None]))
                   /\ "#" \notin Chars(The(result.sanitizedUrl))
                   /\ Arg = "http://example.com" => result.sanitizedUrl = Some("http://example.com/")
              ELSE result.sanitizedUrl = None)

\* A URL written with upper-case letters, a query and a fragment was accepted.
C23_Witness ==
    /\ Returned("validateUrl")
    /\ Arg = "HTTP://Example.COM/a?b=1#frag"
    /\ The(call.ret).isValid
    /\ The(call.ret).sanitizedUrl = Some("http://example.com/a?b=1")

\* C29: validateUrl accepts the sanitizedUrl of every URL it accepts, and
\* returns it unchanged.
C29_IdempotentOnCanonical ==
    Returned("validateUrl") /\ The(call.ret).isValid
        => Eval(The(The(call.ret).sanitizedUrl), LAMBDA canonical :
              validateUrl(canonical)
                  = [isValid |-> TRUE, error |-> None, sanitizedUrl |-> Some(canonical)])

\* Every promise of the batch has settled.
AllSettled == \A i \in 1..Len(promises) : promises[i].status # "pending"

\* C24: in an accepted request every fetch is started before the first
\* promise settles or is awaited; saveFetchResults is invoked once, and only
\* when every promise of the batch has settled; and once every fetch has
\* settled fetchUrls eventually returns or raises.
C24_FanInBeforePersistence ==
    /\ [](pc = "fetching"
            => /\ invoked = The(validation).validUrls
               /\ Len(promises) = Len(invoked)
               /\ handed = <<>>)
    /\ [][handed' # handed
            => /\ handed = <<>> /\ Len(handed') = 1
               /\ Len(promises) = Len(The(validation).validUrls)
               /\ AllSettled]_vars
    /\ []((BatchAccepted /\ pc = "done") => Len(handed) = 1)
    /\ (pc = "fetching" /\ AllSettled) ~> (pc = "done" /\ reply # None)

\* Of two fetches the first was answered and the second failed; fetchUrls
\* returned after one call of saveFetchResults.
C24_Witness ==
    /\ pc = "done"
    /\ Len(invoked) = 2
    /\ Len(handed) = 1
    /\ HasError(handed[1][2])
    /\ ~HasError(handed[1][1])
    /\ reply # None
    /\ The(reply).kind = "return"

\* The upserts session s has completed, in their order of completion.
CompletedBy(s) == SelectSeq(log, LAMBDA upsert : upsert.session = s)

\* C25: a call of saveFetchResults upserts its results one at a time in input
\* order; when its k-th upsert fails, the rows of upserts 1..k-1 are in the
\* table, no upsert after the k-th was made, and the call threw instead of
\* returning the records it saved.
C25_NoRollbackOnFailure ==
    \A s \in Sessions :
        /\ Len(CompletedBy(s)) = Len(save[s].savedResults)
        /\ \A k \in 1..Len(save[s].savedResults) :
              /\ CompletedBy(s)[k].values = Values(save[s].results[k])
              /\ save[s].savedResults[k].url = save[s].results[k].url
        /\ save[s].status = "threw"
              => /\ Len(save[s].savedResults) < Len(save[s].results)
                 /\ The(save[s].outcome).kind = "throw"
                 /\ \A k \in 1..Len(save[s].savedResults) :
                       \E r \in table : /\ r.url = save[s].results[k].url
                                        /\ r.id = save[s].savedResults[k].id

\* The second of two upserts failed: the row of the first is in the table
\* and the call threw.
C25_Witness ==
    /\ save["s1"].status = "threw"
    /\ Len(save["s1"].results) = 2
    /\ Len(save["s1"].savedResults) = 1
    /\ save["s1"].results[1].url # save["s1"].results[2].url
    /\ \E r \in table : r.url = save["s1"].results[1].url
    /\ \A r \in table : r.url # save["s1"].results[2].url

\* The result whose upsert completes in this step, and the session's
\* statement time.
Upserting(s) == Len(log') = Len(log) + 1 /\ log'[Len(log')].session = s

Columns ==
    {"id", "url", "response_status", "response_headers", "response_body", "content_type",
     "fetched_at"}

\* C26: when the upsert of a result with an error and no response completes
\* for a URL whose row holds a stored response, the row keeps its id, has
\* NULL in response_status, response_headers, response_body and content_type,
\* its fetched_at is the statement's now(), and neither the row nor the
\* returned record holds the error message.
C26_FailedRefetchErasesResponse ==
    [][\A s \in Sessions : \A before \in table :
          (/\ Upserting(s)
           /\ HasError(Current(s)) /\ ~HasStatus(Current(s))
           /\ before.url = Current(s).url
           /\ before.response_status # Null)
          => \E after \in table' :
                /\ table' = (table \ {before}) \cup {after}
                /\ after.url = before.url
                /\ after.id = before.id
                /\ after.response_status = Null
                /\ after.response_headers = Null
                /\ after.response_body = Null
                /\ after.content_type = Null
                /\ after.fetched_at = The(save[s].now)
                /\ DOMAIN after = Columns
                /\ after.url # Current(s).error
                /\ save'[s].savedResults[Len(save'[s].savedResults)] = UrlFetch(after)
                /\ "error" \notin DOMAIN UrlFetch(after)]_vars

\* A URL was saved with status 200 and then, by a failed attempt, saved with
\* nothing: its one row has no response left.
C26_Witness ==
    /\ Len(log) = 2
    /\ log[1].values.url = log[2].values.url
    /\ log[1].values.response_status = Num(200)
    /\ log[2].values.response_status = Null
    /\ \E r \in table : /\ r.url = log[2].values.url
                         /\ r.id = log[1].id
                         /\ r.response_status = Null /\ r.response_body = Null
                         /\ r.fetched_at = log[2].now

\* C27: every URL a GET is sent to while a request is served, the first of
\* a fetch and each redirect hop after it, is one validateUrl accepts.
C27_EveryRequestTargetAccepted ==
    \A i \in 1..Len(requested) : \A hop \in 1..Len(requested[i]) :
        validateUrl(requested[i][hop]).isValid

\* C28: a statement of saveFetchResults, called on the constructed service,
\* reaches the database only when initializeDatabase has finished, and finds
\* the table; and the service is in use only if its bootstrap did not fail.
C28_BootstrapBeforeOperations ==
    \A s \in Sessions :
        /\ (save[s].status = "running" /\ save[s].now # None)
              => boot.pc = "done" /\ schema.table
        /\ (save[s].status # "idle" /\ boot.outcome # None)
              => The(boot.outcome).kind = "return"

\* C30: whatever is written between the two queries of a listing, its
\* totalItems and data agree: data has min(limit, max(0, totalItems -
\* (page-1)*limit)) records, each of them a row, by its id, that the count
\* counted.
C30_CountAndDataAgree ==
    (Listed /\ read.options.page >= 1 /\ read.options.limit >= 1)
        => Eval(The(read.outcome).value, LAMBDA page :
              /\ Len(page.data)
                    = Min({read.options.limit,
                           Max({0, page.pagination.totalItems
                                     - (read.options.page - 1) * read.options.limit})})
              /\ \A k \in DOMAIN page.data :
                    \E r \in Filtered(The(read.counted), read.query) :
                        r.id = page.data[k].id)

====
